---- MODULE Spec2Model ----
(***************************************************************************)
(* Model of the tool-call orchestrator of the Linkup JS SDK                *)
(* (src/src/openai-wrapper.ts, class OpenAILinkupWrapper).                 *)
(*                                                                         *)
(* One orchestration call is one invocation of responses.create (style A)  *)
(* or chat.completions.create (style B).  An async function runs without   *)
(* interruption from one await to the next, so every action below is the   *)
(* code executed between two suspension points.  The model provider and    *)
(* the search gateway are the environment: their replies are chosen        *)
(* nondeterministically from bounded sets.                                 *)
(*                                                                         *)
(* The module also models one search of the Linkup client (LinkupClient):  *)
(* the request body, the response normalizer formatResponse and the error  *)
(* mapper refineError, under the specification SpecClient; and one search  *)
(* of the fetch-based client (LinkUpClient), under SpecFetch.              *)
(***************************************************************************)
EXTENDS Integers, Sequences, FiniteSets, TLC

VARIABLES
    call,     \* call[c]: the locals of orchestration call c and what it has done
    heap,     \* heap[r]: the items of the JS array with reference r
    wrapper,  \* the OpenAILinkupWrapper built by wrap, or NoWrapper
    request   \* one search call of the client: its params, outcome and error

vars == <<call, heap, wrapper, request>>

(***************************************************************************)
(* Bounds of the model.                                                    *)
(***************************************************************************)
MaxOutput == 2      \* items in the output of a first reply (style A)
MaxToolCalls == 2   \* tool_calls of an assistant message (style B)

SeqsUpTo(S, n) == UNION {[1..k -> S] : k \in 0..n}

(***************************************************************************)
(* Strings that the code builds or parses are sequences of tokens; a token *)
(* is a record [k, v].  A JSON text is the sequence of its lexical tokens. *)
(***************************************************************************)
Tok(k, v) == [k |-> k, v |-> v]
LBrace == Tok("{", "")
RBrace == Tok("}", "")
Colon == Tok(":", "")
Comma == Tok(",", "")
Str(s) == Tok("str", s)
Num(s) == Tok("num", s)
Null == Tok("null", "")

\* JavaScript values of the parsed arguments
Undefined == [t |-> "undefined", v |-> ""]
JString(s) == [t |-> "string", v |-> s]
JNumber(s) == [t |-> "number", v |-> s]
JNull == [t |-> "null", v |-> ""]

IsScalarTok(tk) == tk.k \in {"str", "num", "null"}

ScalarValue(tk) ==
    CASE tk.k = "str" -> JString(tk.v)
      [] tk.k = "num" -> JNumber(tk.v)
      [] OTHER -> JNull

\* the member list between the braces: str : scalar (, str : scalar)*
IsMemberList(m) ==
    \/ Len(m) = 0
    \/ /\ Len(m) % 4 = 3
       /\ \A i \in 1..Len(m) :
            CASE i % 4 = 1 -> m[i].k = "str"
              [] i % 4 = 2 -> m[i] = Colon
              [] i % 4 = 3 -> IsScalarTok(m[i])
              [] OTHER -> m[i] = Comma

IsObjectText(t) ==
    /\ Len(t) >= 2
    /\ t[1] = LBrace
    /\ t[Len(t)] = RBrace
    /\ IsMemberList(SubSeq(t, 2, Len(t) - 1))

IsScalarText(t) == Len(t) = 1 /\ IsScalarTok(t[1])

\* JSON.parse(t): ok = FALSE is the SyntaxError; otherwise the parsed value,
\* an object being the function from its keys to their values (last one wins).
JSONParse(t) ==
    IF IsScalarText(t)
    THEN [ok |-> TRUE, isObject |-> FALSE, scalar |-> ScalarValue(t[1]), keys |-> {},
          members |-> <<>>]
    ELSE IF IsObjectText(t)
    THEN [ok |-> TRUE, isObject |-> TRUE, scalar |-> Undefined,
          keys |-> {t[i].v : i \in {j \in 2..(Len(t) - 1) : (j - 1) % 4 = 1}},
          members |-> SubSeq(t, 2, Len(t) - 1)]
    ELSE [ok |-> FALSE, isObject |-> FALSE, scalar |-> Undefined, keys |-> {},
          members |-> <<>>]

\* args.query on the parsed value: TypeError on null, undefined on a missing
\* property or on a string or number, else the value of the last "query" member
PropertyThrows(parsed) == ~parsed.isObject /\ parsed.scalar = JNull

GetProperty(parsed, key) ==
    IF parsed.isObject /\ key \in parsed.keys
    THEN LET m == parsed.members
             last == CHOOSE i \in 1..Len(m) :
                        /\ i % 4 = 1 /\ m[i].v = key
                        /\ \A j \in (i + 1)..Len(m) : ~(j % 4 = 1 /\ m[j].v = key)
         IN ScalarValue(m[last + 2])
    ELSE Undefined


(***************************************************************************)
(* Text: a string as the sequence of its characters.                       *)
(***************************************************************************)
RECURSIVE JoinWith(_, _)
\* Array.prototype.join: the texts of parts with sep between neighbours
JoinWith(parts, sep) ==
    IF Len(parts) = 0 THEN <<>>
    ELSE IF Len(parts) = 1 THEN parts[1]
    ELSE parts[1] \o sep \o JoinWith(Tail(parts), sep)

Newline == <<"\n">>

RECURSIVE EscapeChars(_)
\* the characters of a string literal: a line feed becomes backslash, n
EscapeChars(text) ==
    IF Len(text) = 0 THEN <<>>
    ELSE (IF Head(text) = "\n" THEN <<"\\", "n">> ELSE <<Head(text)>>)
         \o EscapeChars(Tail(text))

\* JSON.stringify of a string value: the quoted, escaped literal
JSONStringifyString(text) == <<"\"">> \o EscapeChars(text) \o <<"\"">>

\* JSON.stringify(result, null, 2) of one result object nested in an array:
\* its own properties in insertion order, indented by four spaces
StringifyResult2(r) ==
    <<"{", "\n", "    ", "\"type\": ">> \o JSONStringifyString(<<r.type>>)
    \o <<",", "\n", "    ", "\"name\": ">> \o JSONStringifyString(<<r.name>>)
    \o <<",", "\n", "    ", "\"url\": ">> \o JSONStringifyString(<<r.url>>)
    \o (IF "content" \in DOMAIN r
        THEN <<",", "\n", "    ", "\"content\": ">> \o JSONStringifyString(r.content)
        ELSE <<>>)
    \o <<"\n", "  ", "}">>

\* mutant of JSONStringify2: no indentation, as JSON.stringify(results)
JSONStringifyCompact(results) ==
    <<"[">>
    \o JoinWith([k \in 1..Len(results) |-> <<"{", "\"type\":">>
                                              \o JSONStringifyString(<<results[k].type>>)
                                              \o <<"}">>],
                <<",">>)
    \o <<"]">>

\* JSON.stringify(results, null, 2)
JSONStringify2(results) ==
    IF Len(results) = 0 THEN <<"[]">>
    ELSE <<"[", "\n", "  ">>
         \o JoinWith([k \in 1..Len(results) |-> StringifyResult2(results[k])],
                     <<",", "\n", "  ">>)
         \o <<"\n", "]">>

(***************************************************************************)
(* The search gateway (linkupSearch) as seen by the wrapper.               *)
(***************************************************************************)
TextResult == [type |-> "text", name |-> "n1", url |-> "u1", content |-> <<"a">>]
TextResult2 == [type |-> "text", name |-> "n2", url |-> "u2", content |-> <<"b", "\n", "c">>]
ImageResult == [type |-> "image", name |-> "n3", url |-> "u3"]

\* result lists a successful search can resolve with
GatewayResults == {<<>>, <<TextResult>>, <<ImageResult, TextResult2>>}

\* errors a search can reject with
GatewayErrors == {"LinkupNoResultError", "NetworkError"}

(***************************************************************************)
(* The error mapper (utils/refine-error.utils).  An error is the record of *)
(* its class name and its message; a message is a text.                    *)
(***************************************************************************)
\* obj.key on a JavaScript value: undefined when the property is absent
Prop(obj, key) == IF key \in DOMAIN obj THEN obj[key] ELSE Undefined

ErrorOf(name, message) == [name |-> name, message |-> message]

\* the class an error class extends (errors); TypeError and AxiosError are
\* errors of the runtime and of the transport
SuperClass(name) ==
    CASE name \in {"LinkupInvalidRequestError", "LinkupNoResultError",
                   "LinkupInsufficientCreditError", "LinkupTooManyRequestsError",
                   "LinkupUnknownError", "LinkupFetchError"} -> "LinkupError"
      [] name \in {"LinkupError", "LinkupAuthenticationError", "TypeError", "AxiosError"} ->
            "Error"
      [] OTHER -> "Object"

\* error instanceof class, for an error of the class called name
RECURSIVE InstanceOf(_, _)
InstanceOf(name, class) ==
    \/ name = class
    \/ name # "Object" /\ InstanceOf(SuperClass(name), class)

\* the outcome of a function call: a returned value or a thrown one
Return(v) == [threw |-> FALSE, value |-> v]
Throw(v) == [threw |-> TRUE, value |-> v]

\* the template literal `An unknown error occurred: ${message}`
UnknownMessage(message) == <<"An unknown error occurred: ">> \o message

\* mutant of concatErrorAndDetails: every part is followed by a space
concatErrorAndDetailsTrailing(e) ==
    JoinWith(<<e.error.message>>
             \o [k \in 1..Len(e.error.details) |-> e.error.details[k].message],
             <<" ">>) \o <<" ">>

\* concatErrorAndDetails(e): the message and the details' messages, joined by a space
concatErrorAndDetails(e) ==
    JoinWith(<<e.error.message>>
             \o [k \in 1..Len(e.error.details) |-> e.error.details[k].message],
             <<" ">>)

\* mutant of Case400: FETCH_ERROR is not told apart
Case400WithoutFetch(e) ==
    IF e.error.code = "SEARCH_QUERY_NO_RESULT"
    THEN ErrorOf("LinkupNoResultError", e.error.message)
    ELSE ErrorOf("LinkupInvalidRequestError", concatErrorAndDetails(e))

\* case 400 of refineError
Case400(e) ==
    IF e.error.code = "SEARCH_QUERY_NO_RESULT"
    THEN ErrorOf("LinkupNoResultError", e.error.message)
    ELSE IF e.error.code = "FETCH_ERROR"
    THEN ErrorOf("LinkupFetchError", e.error.message)
    ELSE ErrorOf("LinkupInvalidRequestError", concatErrorAndDetails(e))

\* mutant of Case401Or403: the code decides
Case401Or403ByCode(e) ==
    IF e.error.code \in {"UNAUTHORIZED", "FORBIDDEN"}
    THEN ErrorOf("LinkupAuthenticationError", e.error.message)
    ELSE ErrorOf("LinkupUnknownError", UnknownMessage(e.error.message))

\* cases 401 and 403 of refineError
Case401Or403(e) == ErrorOf("LinkupAuthenticationError", e.error.message)

\* mutant of Case429: every 429 is a lack of credit
Case429AlwaysCredit(e) == ErrorOf("LinkupInsufficientCreditError", e.error.message)

\* case 429 of refineError
Case429(e) ==
    CASE e.error.code = "INSUFFICIENT_FUNDS_CREDITS" ->
            ErrorOf("LinkupInsufficientCreditError", e.error.message)
      [] e.error.code = "TOO_MANY_REQUESTS" ->
            ErrorOf("LinkupTooManyRequestsError", e.error.message)
      [] OTHER -> ErrorOf("LinkupUnknownError", UnknownMessage(e.error.message))

\* mutant of CaseDefault: the backend message alone
CaseDefaultBareMessage(e) == ErrorOf("LinkupUnknownError", e.error.message)

\* the default case of refineError
CaseDefault(e) == ErrorOf("LinkupUnknownError", UnknownMessage(e.error.message))

\* what destructuring { code, message } of an undefined error throws
DestructureError ==
    ErrorOf("TypeError", <<"Cannot destructure property 'code' of 'error' as it is undefined.">>)

\* refineError(e)
refineError(e) ==
    IF Prop(e, "error") = Undefined
    THEN Throw(DestructureError)
    ELSE Return(CASE e.statusCode = 400 -> Case400(e)
                  [] e.statusCode \in {401, 403} -> Case401Or403(e)
                  [] e.statusCode = 429 -> Case429(e)
                  [] OTHER -> CaseDefault(e))

\* status codes, error codes, messages and details of the backend's envelopes
StatusCodes == {400, 401, 403, 404, 429, 500}
ErrorCodes ==
    {"SEARCH_QUERY_NO_RESULT", "FETCH_ERROR", "VALIDATION_ERROR", "UNAUTHORIZED",
     "INSUFFICIENT_FUNDS_CREDITS", "TOO_MANY_REQUESTS", "FOOBAR"}
ErrorMessages == {<<"foobar">>, <<>>}
Detail(field, message) == [field |-> field, message |-> message]
ErrorDetails ==
    {<<>>, <<Detail("outputType", <<"outputType must be one of">>)>>,
     <<Detail("q", <<"q is required">>), Detail("depth", <<"depth is invalid">>)>>}

\* LinkupApiError
Envelopes ==
    {[statusCode |-> sc, error |-> [code |-> code, message |-> m, details |-> d]] :
        sc \in StatusCodes, code \in ErrorCodes, m \in ErrorMessages, d \in ErrorDetails}

\* envelopes without their error field
MalformedEnvelopes == {[statusCode |-> sc] : sc \in StatusCodes}

(***************************************************************************)
(* The Linkup client (LinkupClient): request body and response normalizer. *)
(***************************************************************************)
\* mutant of sanitizeParams: the query is left out
sanitizeParamsNoQuery(params) ==
    [depth |-> params.depth, outputType |-> params.outputType, q |-> Undefined]

\* sanitizeParams(params); the filters and dates a search can also carry are
\* not used by any search of this model
sanitizeParams(params) ==
    IF "includeImages" \in DOMAIN params /\ params.includeImages
    THEN [depth |-> params.depth, outputType |-> params.outputType, q |-> params.query,
          includeImages |-> TRUE]
    ELSE [depth |-> params.depth, outputType |-> params.outputType, q |-> params.query]

\* search(params) up to its await: the request sent to the backend
PostSearch(params) == [url |-> "/search", body |-> sanitizeParams(params)]

\* mutant of formatResponse: searchResults comes back whole
formatResponseWhole(searchResponse, outputType) ==
    IF outputType = "sourcedAnswer"
    THEN [answer |-> Prop(searchResponse, "answer"),
          sources |-> Prop(searchResponse, "sources")]
    ELSE searchResponse

\* mutant of formatResponse: structured keeps the data only
formatResponseDataOnly(searchResponse, outputType) ==
    CASE outputType = "sourcedAnswer" ->
            [answer |-> Prop(searchResponse, "answer"),
             sources |-> Prop(searchResponse, "sources")]
      [] outputType = "searchResults" -> [results |-> Prop(searchResponse, "results")]
      [] OTHER -> IF "data" \in DOMAIN searchResponse
                  THEN [data |-> searchResponse.data]
                  ELSE searchResponse

\* mutant of formatResponse: an output type it does not know gives undefined
formatResponseKnownOnly(searchResponse, outputType) ==
    CASE outputType = "sourcedAnswer" ->
            [answer |-> Prop(searchResponse, "answer"),
             sources |-> Prop(searchResponse, "sources")]
      [] outputType = "searchResults" -> [results |-> Prop(searchResponse, "results")]
      [] outputType = "structured" -> searchResponse
      [] OTHER -> Undefined

\* formatResponse(searchResponse, outputType)
formatResponse(searchResponse, outputType) ==
    CASE outputType = "sourcedAnswer" ->
            [answer |-> Prop(searchResponse, "answer"),
             sources |-> Prop(searchResponse, "sources")]
      [] outputType = "searchResults" -> [results |-> Prop(searchResponse, "results")]
      [] OTHER -> searchResponse

\* payloads of the backend: every choice of fields, with fixed values
Source == [name |-> "foo", url |-> "u0", snippet |-> "foo bar baz"]
PayloadFields == {"answer", "sources", "results", "data", "extra"}
FieldValue(field, results) ==
    CASE field = "answer" -> "foo"
      [] field = "sources" -> <<Source, TextResult, ImageResult>>
      [] field = "results" -> results
      [] field = "data" -> [type |-> "foo"]
      [] OTHER -> JString("x")
Payloads ==
    {[field \in fields |-> FieldValue(field, results)] :
        fields \in SUBSET PayloadFields, results \in GatewayResults}
    \cup {JString("foo")}

\* SearchParams of the client's callers
OutputTypes == {"sourcedAnswer", "searchResults", "structured"}
SearchParamsSet ==
    {[query |-> JString("foo"), depth |-> "standard", outputType |-> o,
      includeImages |-> b, includeSources |-> src] :
        o \in OutputTypes \cup {"other"}, b \in BOOLEAN, src \in BOOLEAN}

(***************************************************************************)
(* The wrapper's constants.                                                *)
(***************************************************************************)
searchWebDefinition == [name |-> "search_web", required |-> <<"query">>]

\* this.tools: the tool advertised in the responses protocol
tools == <<[type |-> "function", name |-> searchWebDefinition.name, strict |-> FALSE]>>

\* this.chatTools: the tool advertised in the chat-completion protocol
chatTools == <<[type |-> "function", function |-> [name |-> searchWebDefinition.name]]>>

\* a tool of the caller, in either protocol
UserToolA == [type |-> "function", name |-> "test_tool", strict |-> FALSE]
UserToolB == [type |-> "function", function |-> [name |-> "test_tool"]]

\* the tools parameter: absent, or a list
NoTools == [present |-> FALSE, list |-> <<>>]
SomeTools(l) == [present |-> TRUE, list |-> l]

\* tools || []
OrEmpty(t) == IF t.present THEN t.list ELSE <<>>

(***************************************************************************)
(* Argument payloads a model can attach to a tool call.                    *)
(***************************************************************************)
ArgsFoo == <<LBrace, Str("query"), Colon, Str("foo-bar"), RBrace>>
ArgsEmptyQuery == <<LBrace, Str("query"), Colon, Str(""), RBrace>>
ArgsNoQuery == <<LBrace, RBrace>>
ArgsEmptyString == <<>>
ArgsTruncated == <<LBrace, Str("query"), Colon>>
ArgsUser == <<LBrace, Str("userId"), Colon, Str("123"), RBrace>>

ArgPayloads == {ArgsFoo, ArgsEmptyQuery, ArgsNoQuery, ArgsEmptyString, ArgsTruncated}


(***************************************************************************)
(* Replies of the model provider, responses protocol: {output: OutputItem[]}*)
(* An item carries its position in the output as id, and as call_id when it *)
(* is a tool call, so the items of one reply are pairwise distinct.         *)
(***************************************************************************)
MessageItem == [type |-> "message", name |-> "", arguments |-> <<>>]
ReasoningItem == [type |-> "reasoning", name |-> "", arguments |-> <<>>]
FunctionCallItem(n, a) == [type |-> "function_call", name |-> n, arguments |-> a]
CustomCallItem(n) == [type |-> "custom_tool_call", name |-> n, arguments |-> <<>>]

OutputKinds ==
    {MessageItem, ReasoningItem, FunctionCallItem("get_user_data", ArgsUser),
     CustomCallItem("search_web")}
    \cup {FunctionCallItem("search_web", a) : a \in ArgPayloads}

ItemAt(kind, pos) ==
    [type |-> kind.type, name |-> kind.name, arguments |-> kind.arguments,
     id |-> pos, call_id |-> pos]

ResponseOf(kinds) == [output |-> [k \in 1..Len(kinds) |-> ItemAt(kinds[k], k)]]

\* first replies with several reasoning items around a search_web call
SeveralReasoning ==
    {ResponseOf(<<ReasoningItem, ReasoningItem, FunctionCallItem("search_web", ArgsFoo)>>),
     ResponseOf(<<FunctionCallItem("search_web", ArgsFoo), ReasoningItem, ReasoningItem>>)}

FirstResponses ==
    {ResponseOf(ks) : ks \in SeqsUpTo(OutputKinds, MaxOutput)} \cup SeveralReasoning

\* what the second model call can answer: a plain message, or more tool calls
FinalResponses ==
    {ResponseOf(<<MessageItem>>),
     ResponseOf(<<FunctionCallItem("search_web", ArgsFoo), MessageItem>>)}

(***************************************************************************)
(* Replies of the model provider, chat-completion protocol:                *)
(* {choices: [{message: {content, tool_calls?}}]}                          *)
(***************************************************************************)
ChatToolCall(t, n, a, pos) ==
    [id |-> pos, type |-> t, function |-> [name |-> n, arguments |-> a]]

ChatCallKinds ==
    {[type |-> "function", name |-> "get_user_data", arguments |-> ArgsUser],
     [type |-> "custom", name |-> "search_web", arguments |-> ArgsFoo]}
    \cup {[type |-> "function", name |-> "search_web", arguments |-> a] : a \in ArgPayloads}

\* an assistant message; tool_calls may be missing altogether
AssistantMessage(has, kinds) ==
    [role |-> "assistant", content |-> "respond", has_tool_calls |-> has,
     tool_calls |-> [k \in 1..Len(kinds) |->
                        ChatToolCall(kinds[k].type, kinds[k].name, kinds[k].arguments, k)]]

AssistantMessages ==
    {AssistantMessage(FALSE, <<>>)}
    \cup {AssistantMessage(TRUE, ks) : ks \in SeqsUpTo(ChatCallKinds, MaxToolCalls)}

\* messages of a choice after the first one
OtherChoiceMessages ==
    {AssistantMessage(FALSE, <<>>),
     AssistantMessage(TRUE, <<[type |-> "function", name |-> "search_web",
                               arguments |-> ArgsFoo]>>)}

CompletionOf(msgs) == [choices |-> [k \in 1..Len(msgs) |-> [message |-> msgs[k]]]]

FirstCompletions ==
    {CompletionOf(<<>>)}
    \cup {CompletionOf(<<m>>) : m \in AssistantMessages}
    \cup {CompletionOf(<<m, o>>) : m \in AssistantMessages, o \in OtherChoiceMessages}

FinalCompletions == {CompletionOf(<<m>>) : m \in OtherChoiceMessages}

(***************************************************************************)
(* What the caller passes.                                                 *)
(***************************************************************************)
UserItem == [role |-> "user", content |-> "hello"]

\* the arrays the caller owns: reference 1 is [], reference 2 is [UserItem]
CallerRefs == {1, 2}
CallerHeap == (1 :> <<>>) @@ (2 :> <<UserItem>>)

\* the array a call creates for itself
OwnRef(c) == 2 + c

InputUndefined == [kind |-> "undefined", text |-> "", ref |-> 0]
InputString(s) == [kind |-> "string", text |-> s, ref |-> 0]
InputArray(r) == [kind |-> "array", text |-> "", ref |-> r]

Inputs ==
    {InputUndefined, InputString(""), InputString("question")}
    \cup {InputArray(r) : r \in CallerRefs}

ToolParamsA == {NoTools, SomeTools(<<UserToolA>>)}
ToolParamsB == {NoTools, SomeTools(<<UserToolB>>)}

(***************************************************************************)
(* The record of one orchestration call.                                   *)
(***************************************************************************)
NoReply == [none |-> TRUE]

IdleCall ==
    [pc |-> "idle", style |-> "none",
     input |-> InputUndefined, userTools |-> NoTools, messages |-> 0,
     conversation |-> 0,         \* reference of conversation / nextMessages
     first |-> NoReply,
     searchWebToolCalls |-> <<>>,
     i |-> 0,                    \* position of the for-of loop in searchWebToolCalls
     modelCalls |-> <<>>,        \* requests sent to the model provider, in order
     modelReplies |-> <<>>,      \* replies the model provider resolved with, in order
     gatewayCalls |-> <<>>,      \* requests sent to linkupSearch, in order
     gatewayReplies |-> <<>>,    \* what linkupSearch resolved or rejected with, in order
     result |-> NoReply,         \* the value the call resolved with
     error |-> "none"]           \* the error the call rejected with


\* entries of gatewayReplies
Resolved(results) == [ok |-> TRUE, error |-> "none", results |-> results]
Rejected(err) == [ok |-> FALSE, error |-> err, results |-> <<>>]

Reject(cr, err) == [cr EXCEPT !.pc = "failed", !.error = err]
Resolve(cr, reply) == [cr EXCEPT !.pc = "done", !.result = reply]

\* mutant of searchLinkup: asks for a deep search
searchLinkupDeep(query) == [depth |-> "deep", outputType |-> "searchResults", query |-> query]

\* searchLinkup(query): the request handed to linkupSearch
searchLinkup(query) == [depth |-> "standard", outputType |-> "searchResults", query |-> query]

\* new OpenAILinkupWrapper(openAIClient, linkupSearch): keeps its two collaborators
OpenAILinkupWrapper(openAIClient, linkupSearch) ==
    [made |-> TRUE, clientOpenAI |-> openAIClient, linkupSearch |-> linkupSearch]

NoWrapper == [made |-> FALSE, clientOpenAI |-> "none", linkupSearch |-> "none"]

\* LinkupClient.wrap(openAIClient): a wrapper bound to the client's own search
wrap(openAIClient) == OpenAILinkupWrapper(openAIClient, "LinkupClient.search")

\* this.linkupSearch(params) up to its await: the backend request it sends,
\* when it is the client's search
linkupSearch(params) ==
    IF wrapper.linkupSearch = "LinkupClient.search"
    THEN <<PostSearch(params)>>
    ELSE <<>>

\* one entry of gatewayCalls: the request, the id of the tool call it serves,
\* and the backend requests it caused
GatewayCall(query, id) ==
    [request |-> searchLinkup(query), toolCall |-> id,
     posts |-> linkupSearch(searchLinkup(query))]

(***************************************************************************)
(* Style A: responses.create                                               *)
(***************************************************************************)
\* mutant of InputMissing: tests input === undefined only
InputMissingOnlyUndefined(input) == input.kind = "undefined"

\* if (!input)
InputMissing(input) ==
    \/ input.kind = "undefined"
    \/ input.kind = "string" /\ input.text = ""

\* mutant of IsSearchWebCall: forgets to compare the name
IsSearchWebCallAnyName(item) == item.type = "function_call"

\* the filter predicate of searchWebToolCalls
IsSearchWebCall(item) ==
    item.type = "function_call" /\ item.name = searchWebDefinition.name

IsReasoning(item) == item.type = "reasoning"

\* mutant of reasoningMessage: the reasoning item is not looked for
reasoningMessageNone(first) == <<>>

\* mutant of reasoningMessage: every reasoning item is taken
reasoningMessageAll(first) == SelectSeq(first.output, IsReasoning)

\* first.output.find(item => item.type === 'reasoning'), as the list to push
reasoningMessage(first) ==
    LET found == SelectSeq(first.output, IsReasoning)
    IN IF Len(found) > 0 THEN <<found[1]>> ELSE <<>>

\* 'content' in result ? result.content : ''
ContentOf(result) == IF "content" \in DOMAIN result THEN result.content ELSE <<>>

\* mutant of FunctionCallOutput: the joined text is not stringified
FunctionCallOutputRaw(toolCall, results) ==
    [call_id |-> toolCall.call_id,
     output |-> JoinWith([k \in 1..Len(results) |-> ContentOf(results[k])], Newline),
     type |-> "function_call_output"]

\* the function_call_output item pushed for one tool call
FunctionCallOutput(toolCall, results) ==
    [call_id |-> toolCall.call_id,
     output |-> JSONStringifyString(
                   JoinWith([k \in 1..Len(results) |-> ContentOf(results[k])], Newline)),
     type |-> "function_call_output"]

\* mutant of ResponsesArgs: defaults an empty payload to '{}' as style B does
ResponsesArgsDefaulted(toolCall) ==
    JSONParse(IF toolCall.arguments = <<>> THEN <<LBrace, RBrace>> ELSE toolCall.arguments)

\* JSON.parse(toolCall.arguments)
ResponsesArgs(toolCall) == JSONParse(toolCall.arguments)

\* mutant of ResponsesLoop: a missing or empty query is refused before the search
ResponsesLoopValidatesQuery(cr, h, k) ==
    IF k > Len(cr.searchWebToolCalls)
    THEN [cr EXCEPT !.pc = "awaitingSecond", !.i = k,
                    !.modelCalls = Append(@, [input |-> h[cr.conversation],
                                              tools |-> cr.userTools])]
    ELSE LET toolCall == cr.searchWebToolCalls[k]
             args == ResponsesArgs(toolCall)
         IN IF ~args.ok THEN Reject([cr EXCEPT !.i = k], "SyntaxError")
            ELSE IF PropertyThrows(args) THEN Reject([cr EXCEPT !.i = k], "TypeError")
            ELSE IF GetProperty(args, "query") \in {Undefined, JString("")}
            THEN Reject([cr EXCEPT !.i = k], "Error")
            ELSE [cr EXCEPT !.pc = "awaitingGateway", !.i = k,
                            !.gatewayCalls =
                                Append(@, GatewayCall(GetProperty(args, "query"),
                                                      toolCall.call_id))]

\* The for-of loop from its k-th iteration up to the next await: parse the
\* arguments and call the gateway, or, past the last tool call, send the
\* second request to the model.  h is the heap at that point.
ResponsesLoop(cr, h, k) ==
    IF k > Len(cr.searchWebToolCalls)
    THEN [cr EXCEPT !.pc = "awaitingSecond", !.i = k,
                    !.modelCalls = Append(@, [input |-> h[cr.conversation],
                                              tools |-> cr.userTools])]
    ELSE LET toolCall == cr.searchWebToolCalls[k]
             args == ResponsesArgs(toolCall)
         IN IF ~args.ok THEN Reject([cr EXCEPT !.i = k], "SyntaxError")
            ELSE IF PropertyThrows(args) THEN Reject([cr EXCEPT !.i = k], "TypeError")
            ELSE [cr EXCEPT !.pc = "awaitingGateway", !.i = k,
                            !.gatewayCalls =
                                Append(@, GatewayCall(GetProperty(args, "query"),
                                                      toolCall.call_id))]

\* if (searchWebToolCalls.length === 0) return first
ResponsesReturnsFirst(searchWebToolCalls) == Len(searchWebToolCalls) = 0

\* mutant of ResponsesCreate: the input is checked after the first model request
ResponsesCreateChecksLate(c, input, userTools) ==
    /\ call[c].pc = "idle"
    /\ wrapper.made
    /\ UNCHANGED <<wrapper, request>>
    /\ LET conversation == IF input.kind = "array" THEN input.ref ELSE OwnRef(c)
           h == IF input.kind = "array" THEN heap
                ELSE [heap EXCEPT ![OwnRef(c)] =
                         <<[content |-> input.text, role |-> "user"]>>]
           mergeTools == tools \o OrEmpty(userTools)
           cr == [call[c] EXCEPT !.style = "A", !.input = input, !.userTools = userTools,
                                 !.conversation = conversation,
                                 !.modelCalls = <<[input |-> h[conversation],
                                                   tools |-> SomeTools(mergeTools)]>>]
       IN /\ heap' = h
          /\ call' = [call EXCEPT ![c] =
                        IF InputMissing(input)
                        THEN Reject(cr, "Input is required for creating a response")
                        ELSE [cr EXCEPT !.pc = "awaitingFirst"]]

\* responses.create(params) up to the first await
ResponsesCreate(c, input, userTools) ==
    /\ call[c].pc = "idle"
    /\ wrapper.made
    /\ UNCHANGED <<wrapper, request>>
    /\ IF InputMissing(input)
       THEN /\ call' = [call EXCEPT ![c] =
                          Reject([@ EXCEPT !.style = "A", !.input = input,
                                           !.userTools = userTools],
                                 "Input is required for creating a response")]
            /\ UNCHANGED heap
       ELSE LET conversation == IF input.kind = "array" THEN input.ref ELSE OwnRef(c)
                h == IF input.kind = "array" THEN heap
                     ELSE [heap EXCEPT ![OwnRef(c)] =
                              <<[content |-> input.text, role |-> "user"]>>]
                mergeTools == tools \o OrEmpty(userTools)
            IN /\ heap' = h
               /\ call' = [call EXCEPT ![c] =
                             [@ EXCEPT !.pc = "awaitingFirst", !.style = "A",
                                       !.input = input, !.userTools = userTools,
                                       !.conversation = conversation,
                                       !.modelCalls = <<[input |-> h[conversation],
                                                         tools |-> SomeTools(mergeTools)]>>]]

\* the first reply arrives: filter, early return, pushes, first loop iteration
ResponsesFirst(c, first) ==
    /\ call[c].pc = "awaitingFirst"
    /\ UNCHANGED <<wrapper, request>>
    /\ call[c].style = "A"
    /\ LET searchWebToolCalls == SelectSeq(first.output, IsSearchWebCall)
           cr == [call[c] EXCEPT !.first = first, !.modelReplies = Append(@, first),
                                 !.searchWebToolCalls = searchWebToolCalls]
       IN IF ResponsesReturnsFirst(searchWebToolCalls)
          THEN /\ call' = [call EXCEPT ![c] = Resolve(cr, first)]
               /\ UNCHANGED heap
          ELSE LET h == [heap EXCEPT ![cr.conversation] =
                            @ \o reasoningMessage(first) \o searchWebToolCalls]
               IN /\ heap' = h
                  /\ call' = [call EXCEPT ![c] = ResponsesLoop(cr, h, 1)]

\* linkupSearch resolves: push the tool output, go on with the loop
ResponsesSearchResolved(c, results) ==
    /\ call[c].pc = "awaitingGateway"
    /\ UNCHANGED <<wrapper, request>>
    /\ call[c].style = "A"
    /\ LET cr == [call[c] EXCEPT !.gatewayReplies = Append(@, Resolved(results))]
           toolCall == cr.searchWebToolCalls[cr.i]
           h == [heap EXCEPT ![cr.conversation] =
                    Append(@, FunctionCallOutput(toolCall, results))]
       IN /\ heap' = h
          /\ call' = [call EXCEPT ![c] = ResponsesLoop(cr, h, cr.i + 1)]

\* mutant of ResponsesFinal: returns first instead of final
ResponsesFinalReturnsFirst(c, final) ==
    /\ call[c].pc = "awaitingSecond"
    /\ UNCHANGED <<wrapper, request>>
    /\ call[c].style = "A"
    /\ call' = [call EXCEPT ![c] =
                  Resolve([@ EXCEPT !.modelReplies = Append(@, final)], call[c].first)]
    /\ UNCHANGED heap

\* the second reply arrives: return final
ResponsesFinal(c, final) ==
    /\ call[c].pc = "awaitingSecond"
    /\ UNCHANGED <<wrapper, request>>
    /\ call[c].style = "A"
    /\ call' = [call EXCEPT ![c] = Resolve([@ EXCEPT !.modelReplies = Append(@, final)], final)]
    /\ UNCHANGED heap

(***************************************************************************)
(* Style B: chat.completions.create                                        *)
(***************************************************************************)
\* mutant of IsSearchWebChatCall: forgets to compare the name
IsSearchWebChatCallAnyName(toolCall) == toolCall.type = "function"

\* the filter predicate of searchWebToolCalls
IsSearchWebChatCall(toolCall) ==
    toolCall.type = "function" /\ toolCall.function.name = searchWebDefinition.name

\* mutant of ChatSearchWebToolCalls: the last choice is inspected
ChatSearchWebToolCallsLastChoice(first) ==
    IF Len(first.choices) = 0 THEN <<>>
    ELSE LET assistantMessage == first.choices[Len(first.choices)].message
         IN IF assistantMessage.has_tool_calls
            THEN SelectSeq(assistantMessage.tool_calls, IsSearchWebChatCall)
            ELSE <<>>

\* first?.choices?.[0]?.message?.tool_calls?.filter(...) ?? []
ChatSearchWebToolCalls(first) ==
    IF Len(first.choices) = 0 THEN <<>>
    ELSE LET assistantMessage == first.choices[1].message
         IN IF assistantMessage.has_tool_calls
            THEN SelectSeq(assistantMessage.tool_calls, IsSearchWebChatCall)
            ELSE <<>>

\* mutant of ChatArgs: the arguments are parsed as they are
ChatArgsAsGiven(toolCall) == JSONParse(toolCall.function.arguments)

\* JSON.parse(toolCall.function?.arguments || '{}')
ChatArgs(toolCall) ==
    JSONParse(IF toolCall.function.arguments = <<>> THEN <<LBrace, RBrace>>
              ELSE toolCall.function.arguments)

\* mutant of ToolMessage: the message is not keyed by the tool call
ToolMessageUnkeyed(toolCall, results) ==
    [content |-> JSONStringify2(results), role |-> "tool", tool_call_id |-> 0]

\* the tool message pushed for one tool call
ToolMessage(toolCall, results) ==
    [content |-> JSONStringify2(results), role |-> "tool", tool_call_id |-> toolCall.id]

\* mutant of ChatLoop: the tool calls are taken from the last to the first
ChatLoopReversed(cr, h, k) ==
    IF k > Len(cr.searchWebToolCalls)
    THEN [cr EXCEPT !.pc = "awaitingSecond", !.i = k,
                    !.modelCalls = Append(@, [messages |-> h[cr.conversation],
                                              tools |-> cr.userTools])]
    ELSE LET toolCall == cr.searchWebToolCalls[Len(cr.searchWebToolCalls) + 1 - k]
             args == ChatArgs(toolCall)
         IN IF ~args.ok THEN Reject([cr EXCEPT !.i = k], "SyntaxError")
            ELSE IF PropertyThrows(args) THEN Reject([cr EXCEPT !.i = k], "TypeError")
            ELSE [cr EXCEPT !.pc = "awaitingGateway", !.i = k,
                            !.gatewayCalls =
                                Append(@, GatewayCall(GetProperty(args, "query"),
                                                      toolCall.id))]

\* the for-of loop of chat.completions.create, as ResponsesLoop
ChatLoop(cr, h, k) ==
    IF k > Len(cr.searchWebToolCalls)
    THEN [cr EXCEPT !.pc = "awaitingSecond", !.i = k,
                    !.modelCalls = Append(@, [messages |-> h[cr.conversation],
                                              tools |-> cr.userTools])]
    ELSE LET toolCall == cr.searchWebToolCalls[k]
             args == ChatArgs(toolCall)
         IN IF ~args.ok THEN Reject([cr EXCEPT !.i = k], "SyntaxError")
            ELSE IF PropertyThrows(args) THEN Reject([cr EXCEPT !.i = k], "TypeError")
            ELSE [cr EXCEPT !.pc = "awaitingGateway", !.i = k,
                            !.gatewayCalls =
                                Append(@, GatewayCall(GetProperty(args, "query"),
                                                      toolCall.id))]

\* mutant of ChatReturnsFirst: off by one, a single tool call is not handled
ChatReturnsFirstOffByOne(searchWebToolCalls) == Len(searchWebToolCalls) <= 1

\* if (searchWebToolCalls.length === 0) return first
ChatReturnsFirst(searchWebToolCalls) == Len(searchWebToolCalls) = 0

\* chat.completions.create(params) up to the first await
ChatCreate(c, messages, userTools) ==
    /\ call[c].pc = "idle"
    /\ wrapper.made
    /\ UNCHANGED <<wrapper, request>>
    /\ LET mergedTools == chatTools \o OrEmpty(userTools)
       IN call' = [call EXCEPT ![c] =
                     [@ EXCEPT !.pc = "awaitingFirst", !.style = "B",
                               !.messages = messages, !.userTools = userTools,
                               !.modelCalls = <<[messages |-> heap[messages],
                                                 tools |-> SomeTools(mergedTools)]>>]]
    /\ UNCHANGED heap

ChatFirst(c, first) ==
    /\ call[c].pc = "awaitingFirst"
    /\ UNCHANGED <<wrapper, request>>
    /\ call[c].style = "B"
    /\ LET searchWebToolCalls == ChatSearchWebToolCalls(first)
           cr == [call[c] EXCEPT !.first = first, !.modelReplies = Append(@, first),
                                 !.searchWebToolCalls = searchWebToolCalls,
                                 !.conversation = OwnRef(c)]
       IN IF ChatReturnsFirst(searchWebToolCalls)
          THEN /\ call' = [call EXCEPT ![c] = Resolve([cr EXCEPT !.conversation = 0], first)]
               /\ UNCHANGED heap
          ELSE LET nextMessages == Append(heap[cr.messages], first.choices[1].message)
                   h == [heap EXCEPT ![OwnRef(c)] = nextMessages]
               IN /\ heap' = h
                  /\ call' = [call EXCEPT ![c] = ChatLoop(cr, h, 1)]

ChatSearchResolved(c, results) ==
    /\ call[c].pc = "awaitingGateway"
    /\ UNCHANGED <<wrapper, request>>
    /\ call[c].style = "B"
    /\ LET cr == [call[c] EXCEPT !.gatewayReplies = Append(@, Resolved(results))]
           toolCall == cr.searchWebToolCalls[cr.i]
           h == [heap EXCEPT ![cr.conversation] = Append(@, ToolMessage(toolCall, results))]
       IN /\ heap' = h
          /\ call' = [call EXCEPT ![c] = ChatLoop(cr, h, cr.i + 1)]

\* mutant of ChatFinal: the second reply starts another round of tool execution
ChatFinalRunsToolsAgain(c, final) ==
    /\ call[c].pc = "awaitingSecond"
    /\ UNCHANGED <<wrapper, request>>
    /\ call[c].style = "B"
    /\ call' = [call EXCEPT ![c] = [@ EXCEPT !.pc = "awaitingGateway",
                                              !.modelReplies = Append(@, final)]]
    /\ UNCHANGED heap

ChatFinal(c, final) ==
    /\ call[c].pc = "awaitingSecond"
    /\ UNCHANGED <<wrapper, request>>
    /\ call[c].style = "B"
    /\ call' = [call EXCEPT ![c] = Resolve([@ EXCEPT !.modelReplies = Append(@, final)], final)]
    /\ UNCHANGED heap

(***************************************************************************)
(* Rejections of the awaited promises: nothing catches them, so the call   *)
(* rejects with the same error.                                            *)
(***************************************************************************)
\* mutant of SearchRejected: the failure is caught and rethrown as a new error
SearchRejectedWrapped(c, err) ==
    /\ call[c].pc = "awaitingGateway"
    /\ UNCHANGED <<wrapper, request>>
    /\ call' = [call EXCEPT ![c] =
                  Reject([@ EXCEPT !.gatewayReplies = Append(@, Rejected(err))], "Error")]
    /\ UNCHANGED heap

SearchRejected(c, err) ==
    /\ call[c].pc = "awaitingGateway"
    /\ UNCHANGED <<wrapper, request>>
    /\ call' = [call EXCEPT ![c] =
                  Reject([@ EXCEPT !.gatewayReplies = Append(@, Rejected(err))], err)]
    /\ UNCHANGED heap

ModelRejected(c) ==
    /\ call[c].pc \in {"awaitingFirst", "awaitingSecond"}
    /\ UNCHANGED <<wrapper, request>>
    /\ call' = [call EXCEPT ![c] = Reject(@, "APIError")]
    /\ UNCHANGED heap

\* wrap(openAIClient) on the Linkup client
Wrap ==
    /\ ~wrapper.made
    /\ wrapper' = wrap("openAIClient")
    /\ UNCHANGED <<call, heap, request>>

(***************************************************************************)
(* LinkupClient.search: the post, then the response through the            *)
(* interceptor and formatResponse.                                         *)
(***************************************************************************)
IdleRequest ==
    [pc |-> "idle", params |-> NoReply, post |-> NoReply, response |-> NoReply,
     result |-> NoReply, error |-> NoReply]

\* errors of the transport
NetworkError == [name |-> "AxiosError", message |-> <<"Network Error">>]
EmptyBodyError ==
    [name |-> "AxiosError", message |-> <<"Request failed">>, response |-> [status |-> 502]]
ResponseError(data) ==
    [name |-> "AxiosError", message |-> <<"Request failed">>,
     response |-> [status |-> data.statusCode, data |-> data]]
TransportErrors ==
    {NetworkError, EmptyBodyError}
    \cup {ResponseError(data) : data \in Envelopes \cup MalformedEnvelopes}

\* the response interceptor's error handler: what it throws
OnRejected(error) ==
    IF "response" \notin DOMAIN error \/ "data" \notin DOMAIN error.response
    THEN error
    ELSE refineError(error.response.data).value

\* search(params) up to the await of the post
Search(params) ==
    /\ request.pc = "idle"
    /\ request' = [request EXCEPT !.pc = "posted", !.params = params,
                                   !.post = PostSearch(params)]
    /\ UNCHANGED <<call, heap, wrapper>>

\* the backend answers 2xx: then(response => formatResponse(response.data, outputType))
SearchFulfilled(data) ==
    /\ request.pc = "posted"
    /\ request' = [request EXCEPT !.pc = "fulfilled", !.response = data,
                                   !.result = formatResponse(data, request.params.outputType)]
    /\ UNCHANGED <<call, heap, wrapper>>

\* the post fails: the interceptor throws, nothing catches it
SearchFailed(error) ==
    /\ request.pc = "posted"
    /\ request' = [request EXCEPT !.pc = "rejected", !.response = error,
                                   !.error = OnRejected(error)]
    /\ UNCHANGED <<call, heap, wrapper>>

(***************************************************************************)
(* Specification: one orchestration call on a wrapper made by wrap.        *)
(***************************************************************************)
InitOf(calls) ==
    /\ call = [c \in calls |-> IdleCall]
    /\ heap = CallerHeap @@ [r \in {OwnRef(c) : c \in calls} |-> <<>>]
    /\ wrapper = NoWrapper
    /\ request = IdleRequest

Init == InitOf({1})

\* calls suspended at the given await
At(pc, style) == {c \in DOMAIN call : call[c].pc = pc /\ call[c].style = style}
Idle == {c \in DOMAIN call : call[c].pc = "idle"}

Next ==
    \/ Wrap
    \/ \E c \in Idle, input \in Inputs, userTools \in ToolParamsA :
          ResponsesCreate(c, input, userTools)
    \/ \E c \in At("awaitingFirst", "A"), first \in FirstResponses : ResponsesFirst(c, first)
    \/ \E c \in At("awaitingGateway", "A"), results \in GatewayResults :
          ResponsesSearchResolved(c, results)
    \/ \E c \in At("awaitingSecond", "A"), final \in FinalResponses : ResponsesFinal(c, final)
    \/ \E c \in Idle, messages \in CallerRefs, userTools \in ToolParamsB :
          ChatCreate(c, messages, userTools)
    \/ \E c \in At("awaitingFirst", "B"), first \in FirstCompletions : ChatFirst(c, first)
    \/ \E c \in At("awaitingGateway", "B"), results \in GatewayResults :
          ChatSearchResolved(c, results)
    \/ \E c \in At("awaitingSecond", "B"), final \in FinalCompletions : ChatFinal(c, final)
    \/ \E c \in DOMAIN call, err \in GatewayErrors : SearchRejected(c, err)
    \/ \E c \in DOMAIN call : ModelRejected(c)

Spec == Init /\ [][Next]_vars

(***************************************************************************)
(* Specification with fairness: every awaited promise settles.  An await   *)
(* on openAIClient...create or on linkupSearch resumes the function once   *)
(* the promise is fulfilled or rejected, and each of these steps is the    *)
(* only one enabled for the call while it waits.                           *)
(***************************************************************************)
Completes ==
    \/ \E c \in At("awaitingFirst", "A"), first \in FirstResponses : ResponsesFirst(c, first)
    \/ \E c \in At("awaitingGateway", "A"), results \in GatewayResults :
          ResponsesSearchResolved(c, results)
    \/ \E c \in At("awaitingSecond", "A"), final \in FinalResponses : ResponsesFinal(c, final)
    \/ \E c \in At("awaitingFirst", "B"), first \in FirstCompletions : ChatFirst(c, first)
    \/ \E c \in At("awaitingGateway", "B"), results \in GatewayResults :
          ChatSearchResolved(c, results)
    \/ \E c \in At("awaitingSecond", "B"), final \in FinalCompletions : ChatFinal(c, final)
    \/ \E c \in DOMAIN call, err \in GatewayErrors : SearchRejected(c, err)
    \/ \E c \in DOMAIN call : ModelRejected(c)

SpecLive == Init /\ [][Next]_vars /\ WF_vars(Completes)

(***************************************************************************)
(* Specification: two orchestration calls on the same wrapper, their steps *)
(* interleaved in every way.  The callers pass the same list or a string;  *)
(* the replies are a few of those of the one-call specification.           *)
(***************************************************************************)
ConcurrentCalls == {1, 2}

ConcurrentInputs == {InputString("question"), InputArray(2)}

ConcurrentFirstResponses ==
    {ResponseOf(<<MessageItem>>),
     ResponseOf(<<FunctionCallItem("search_web", ArgsFoo)>>),
     ResponseOf(<<ReasoningItem, FunctionCallItem("search_web", ArgsFoo)>>)}

ConcurrentFinalResponses == {ResponseOf(<<MessageItem>>)}

ConcurrentFirstCompletions ==
    {CompletionOf(<<AssistantMessage(FALSE, <<>>)>>),
     CompletionOf(<<AssistantMessage(TRUE, <<[type |-> "function", name |-> "search_web",
                                              arguments |-> ArgsFoo]>>)>>)}

ConcurrentFinalCompletions == {CompletionOf(<<AssistantMessage(FALSE, <<>>)>>)}

ConcurrentResults == {<<TextResult>>}

InitConcurrent == InitOf(ConcurrentCalls)

NextConcurrent ==
    \/ Wrap
    \/ \E c \in Idle, input \in ConcurrentInputs : ResponsesCreate(c, input, NoTools)
    \/ \E c \in At("awaitingFirst", "A"), first \in ConcurrentFirstResponses :
          ResponsesFirst(c, first)
    \/ \E c \in At("awaitingGateway", "A"), results \in ConcurrentResults :
          ResponsesSearchResolved(c, results)
    \/ \E c \in At("awaitingSecond", "A"), final \in ConcurrentFinalResponses :
          ResponsesFinal(c, final)
    \/ \E c \in Idle : ChatCreate(c, 2, NoTools)
    \/ \E c \in At("awaitingFirst", "B"), first \in ConcurrentFirstCompletions :
          ChatFirst(c, first)
    \/ \E c \in At("awaitingGateway", "B"), results \in ConcurrentResults :
          ChatSearchResolved(c, results)
    \/ \E c \in At("awaitingSecond", "B"), final \in ConcurrentFinalCompletions :
          ChatFinal(c, final)
    \/ \E c \in DOMAIN call : SearchRejected(c, "NetworkError")
    \/ \E c \in DOMAIN call : ModelRejected(c)

SpecConcurrent == InitConcurrent /\ [][NextConcurrent]_vars

(***************************************************************************)
(* Specification: one search of the Linkup client.                         *)
(***************************************************************************)
InitClient == InitOf({})

NextClient ==
    \/ \E params \in SearchParamsSet : Search(params)
    \/ \E data \in Payloads : SearchFulfilled(data)
    \/ \E error \in TransportErrors : SearchFailed(error)

SpecClient == InitClient /\ [][NextClient]_vars

(***************************************************************************)
(* The fetch-based client (client.ts, class LinkUpClient).  Under the      *)
(* specification SpecFetch the variable request holds one search of this   *)
(* client.  A response is what fetch resolved with: a Response of          *)
(* node-fetch, or an object that only looks like one (isResponse FALSE).   *)
(* The body of a Response can be read once: a second json() rejects.       *)
(***************************************************************************)
DefaultErrorMessage == <<"An unknown error occurred">>
NoResultMessage == <<"The query did not yield any result">>

\* getSearchParams(params), the query string of the request
getSearchParams(params) ==
    [q |-> params.query, depth |-> params.depth, outputType |-> params.outputType]

\* validateSearchResponse(searchResponse, outputType)
validateSearchResponse(searchResponse, outputType) ==
    CASE outputType = "sourcedAnswer" ->
            [answer |-> Prop(searchResponse, "answer"),
             sources |-> Prop(searchResponse, "sources")]
      [] outputType = "searchResults" -> [results |-> Prop(searchResponse, "results")]
      [] OTHER -> searchResponse

\* a body: the text parses as JSON to value, or does not parse
ParsedBody(value) == [parses |-> TRUE, value |-> value]
UnparsableBody == [parses |-> FALSE, value |-> JNull]

\* the try/catch of throwSearchError: the message it ends with
ErrorMessageOf(error) ==
    IF error.body.parses
    THEN LET errorBody == error.body.value
         IN IF /\ errorBody # JNull             \* errorBody && errorBody.message
               /\ "message" \in DOMAIN errorBody
               /\ errorBody.message # <<>>
            THEN errorBody.message
            ELSE DefaultErrorMessage
    ELSE IF error.statusText # <<>> THEN error.statusText ELSE DefaultErrorMessage

\* throwSearchError(error): the error its promise rejects with
throwSearchError(error) ==
    IF error.isResponse
    THEN LET errorMessage == ErrorMessageOf(error)
         IN CASE error.status = 400 ->
                    IF errorMessage = NoResultMessage
                    THEN ErrorOf("LinkupNoResultError", errorMessage)
                    ELSE ErrorOf("LinkupInvalidRequestError", errorMessage)
              [] error.status = 403 -> ErrorOf("LinkupAuthenticationError", errorMessage)
              [] error.status = 429 -> ErrorOf("LinkupInsufficientCreditError", errorMessage)
              [] OTHER -> ErrorOf("LinkupUnknownError", errorMessage)
    ELSE ErrorOf("LinkupUnknownError", DefaultErrorMessage)

\* an error of the fetch library: a failed request, a body that is not JSON
\* (FetchError), a body read twice (TypeError)
LibraryError(name, message) == ErrorOf(name, <<message>>)

\* what the backend answers
ErrorBodies ==
    {ParsedBody([message |-> NoResultMessage]), ParsedBody([message |-> <<"foobar">>]),
     ParsedBody([message |-> <<>>]), ParsedBody([error |-> "foo"]), ParsedBody(JNull),
     UnparsableBody}
OkBodies ==
    {ParsedBody([field \in fields |-> FieldValue(field, <<TextResult>>)]) :
        fields \in SUBSET {"answer", "sources", "results"}}
    \cup {UnparsableBody}
FetchResponses ==
    {[isResponse |-> r, ok |-> s = 200, status |-> s, statusText |-> t, body |-> b] :
        r \in BOOLEAN, s \in {200, 400, 403, 429, 500},
        t \in {<<>>, <<"Status Text">>}, b \in ErrorBodies \cup OkBodies}
FetchParamsSet ==
    {[query |-> "foo", depth |-> "standard", outputType |-> o] : o \in OutputTypes}

\* the promise returned by throwSearchError, which search neither awaits nor
\* returns: not made, pending on error.json(), or rejected
Promise(state, error) == [state |-> state, error |-> error]

IdleFetch ==
    [pc |-> "idle", params |-> NoReply, url |-> NoReply, response |-> NoReply,
     result |-> NoReply, error |-> NoReply, thrown |-> Promise("none", NoReply)]

\* search(params) up to the await of fetch
FetchSearch(params) ==
    /\ request.pc = "idle"
    /\ request' = [request EXCEPT !.pc = "fetching", !.params = params,
                                   !.url = getSearchParams(params)]
    /\ UNCHANGED <<call, heap, wrapper>>

\* fetch rejects: nothing catches it
FetchRejected ==
    /\ request.pc = "fetching"
    /\ request' = [request EXCEPT !.pc = "rejected", !.error = LibraryError("FetchError", "request failed")]
    /\ UNCHANGED <<call, heap, wrapper>>

\* fetch resolves: on a response that is not ok throwSearchError(response) is
\* called and runs up to its await of error.json(), or to its throw; its promise
\* is dropped, and search goes on to its own await of response.json()
FetchResolved(response) ==
    /\ request.pc = "fetching"
    /\ request' = [request EXCEPT
                      !.pc = "reading", !.response = response,
                      !.thrown = IF response.ok THEN Promise("none", NoReply)
                                 ELSE IF response.isResponse
                                 THEN Promise("pending", NoReply)
                                 ELSE Promise("rejected", throwSearchError(response))]
    /\ UNCHANGED <<call, heap, wrapper>>

\* response.json() of search settles: the body was read already when
\* throwSearchError got to error.json() first
JsonSettled ==
    /\ request.pc = "reading"
    /\ LET response == request.response
       IN request' =
            IF ~response.ok /\ response.isResponse
            THEN [request EXCEPT
                     !.pc = "rejected",
                     !.error = LibraryError("TypeError", "body used already")]
            ELSE IF ~response.body.parses
            THEN [request EXCEPT
                     !.pc = "rejected",
                     !.error = LibraryError("FetchError", "invalid json response body")]
            ELSE [request EXCEPT
                     !.pc = "fulfilled",
                     !.result = validateSearchResponse(response.body.value,
                                                       request.params.outputType)]
    /\ UNCHANGED <<call, heap, wrapper>>

\* error.json() of throwSearchError settles, and throwSearchError throws
ThrowSearchErrorSettled ==
    /\ request.thrown.state = "pending"
    /\ request' = [request EXCEPT
                      !.thrown = Promise("rejected", throwSearchError(request.response))]
    /\ UNCHANGED <<call, heap, wrapper>>

InitFetch ==
    /\ call = [c \in {} |-> IdleCall]
    /\ heap = CallerHeap
    /\ wrapper = NoWrapper
    /\ request = IdleFetch

NextFetch ==
    \/ \E params \in FetchParamsSet : FetchSearch(params)
    \/ FetchRejected
    \/ \E response \in FetchResponses : FetchResolved(response)
    \/ JsonSettled
    \/ ThrowSearchErrorSettled

SpecFetch == InitFetch /\ [][NextFetch]_vars


(***************************************************************************)
(* Vocabulary of the properties.  The tool calls of a reply are counted    *)
(* here from the reply itself, independently of the wrapper's filters.     *)
(***************************************************************************)
Calls == DOMAIN call

HasFirstReply(c) == Len(call[c].modelReplies) >= 1
FirstReply(c) == call[c].modelReplies[1]
HasSecondReply(c) == Len(call[c].modelReplies) >= 2
SecondReply(c) == call[c].modelReplies[2]

IsToolCallItem(item) == item.type \in {"function_call", "custom_tool_call"}
IsSearchItem(item) == item.type = "function_call" /\ item.name = "search_web"
IsSearchToolCall(tc) == tc.type = "function" /\ tc.function.name = "search_web"
IsAnyToolCall(tc) == TRUE

\* the tool calls a reply holds where the protocol puts them
ToolCallsIn(style, reply) ==
    IF style = "A" THEN SelectSeq(reply.output, IsToolCallItem)
    ELSE IF Len(reply.choices) = 0 THEN <<>>
    ELSE SelectSeq(reply.choices[1].message.tool_calls, IsAnyToolCall)

\* those of them that are function calls named search_web
MatchingIn(style, reply) ==
    IF style = "A" THEN SelectSeq(reply.output, IsSearchItem)
    ELSE IF Len(reply.choices) = 0 THEN <<>>
    ELSE SelectSeq(reply.choices[1].message.tool_calls, IsSearchToolCall)

IdOf(style, tc) == IF style = "A" THEN tc.call_id ELSE tc.id
ArgsOf(style, tc) == IF style = "A" THEN tc.arguments ELSE tc.function.arguments

Matching(c) == MatchingIn(call[c].style, FirstReply(c))
ToolCallsOfFirst(c) == ToolCallsIn(call[c].style, FirstReply(c))
MatchingIds(c) == {IdOf(call[c].style, Matching(c)[k]) : k \in 1..Len(Matching(c))}
Unrelated(c) ==
    {ToolCallsOfFirst(c)[k] : k \in 1..Len(ToolCallsOfFirst(c))}
    \ {Matching(c)[k] : k \in 1..Len(Matching(c))}

ReturnedFirstAfterOneCall(c) ==
    /\ call[c].pc = "done"
    /\ Len(call[c].modelCalls) = 1
    /\ call[c].result = FirstReply(c)

(***************************************************************************)
(* C1.  In both styles, when the first reply holds no tool call matching   *)
(* search_web, exactly one model call is made, the gateway is never        *)
(* invoked and the call returns the first reply itself.                    *)
(***************************************************************************)
C1_NoMatchReturnsFirst ==
    \A c \in Calls :
        (HasFirstReply(c) /\ Len(Matching(c)) = 0)
        => /\ ReturnedFirstAfterOneCall(c)
           /\ call[c].gatewayCalls = <<>>

\* style A returned a first reply that holds a tool call, but none for search_web
C1_Witness ==
    \E c \in Calls :
        /\ call[c].style = "A"
        /\ call[c].pc = "done"
        /\ Len(Matching(c)) = 0
        /\ Len(ToolCallsOfFirst(c)) > 0

(***************************************************************************)
(* C2.  In both styles, when the first reply holds one or more matching    *)
(* tool calls and the call returns (no step failed), exactly two model     *)
(* calls were made, however many tool calls matched; and no call ever      *)
(* makes more than two.                                                    *)
(***************************************************************************)
C2_MatchMakesTwoModelCalls ==
    \A c \in Calls :
        /\ Len(call[c].modelCalls) <= 2
        /\ (call[c].pc = "done" /\ Len(Matching(c)) >= 1) => Len(call[c].modelCalls) = 2

\* style B returned after two matching calls
C2_Witness ==
    \E c \in Calls :
        /\ call[c].style = "B"
        /\ call[c].pc = "done"
        /\ Len(Matching(c)) = 2
        /\ Len(call[c].modelCalls) = 2

(***************************************************************************)
(* C3.  One round only: once the second reply has arrived the call has     *)
(* returned it as it is, whatever tool calls it holds; there were exactly  *)
(* two model calls, and the gateway was invoked as many times as the first *)
(* reply had matching tool calls.  The same count holds for every call     *)
(* that returns.                                                           *)
(***************************************************************************)
C3_OneRoundOnly ==
    \A c \in Calls :
        /\ Len(call[c].modelReplies) <= 2
        /\ HasSecondReply(c)
           => /\ call[c].pc = "done"
              /\ call[c].result = SecondReply(c)
              /\ Len(call[c].modelCalls) = 2
        /\ call[c].pc = "done" => Len(call[c].gatewayCalls) = Len(Matching(c))

\* the second reply asks for search_web again and is returned all the same
C3_Witness ==
    \E c \in Calls :
        /\ call[c].style = "A"
        /\ HasSecondReply(c)
        /\ Len(MatchingIn("A", SecondReply(c))) >= 1
        /\ call[c].pc = "done"

(***************************************************************************)
(* C4.  The gateway is invoked only for tool calls of the first reply that *)
(* are function calls named search_web, never twice for the same one, and  *)
(* for each of them when the call returns; a first reply holding only      *)
(* unrelated tool calls is returned after a single model call.             *)
(***************************************************************************)
C4_OnlySearchWebInvokesGateway ==
    \A c \in Calls :
        LET g == call[c].gatewayCalls
        IN /\ \A k \in 1..Len(g) : HasFirstReply(c) /\ g[k].toolCall \in MatchingIds(c)
           /\ \A j, k \in 1..Len(g) : j # k => g[j].toolCall # g[k].toolCall
           /\ call[c].pc = "done" => {g[k].toolCall : k \in 1..Len(g)} = MatchingIds(c)
           /\ (HasFirstReply(c) /\ Len(Matching(c)) = 0 /\ Len(ToolCallsOfFirst(c)) > 0)
              => ReturnedFirstAfterOneCall(c)

\* style B returned after one search_web call mixed with one unrelated call
C4_Witness ==
    \E c \in Calls :
        /\ call[c].style = "B"
        /\ call[c].pc = "done"
        /\ Len(Matching(c)) = 1
        /\ Cardinality(Unrelated(c)) = 1
        /\ Len(call[c].gatewayCalls) = 1


\* the conversation the second model call was given
SecondConversation(c) ==
    IF call[c].style = "A" THEN call[c].modelCalls[2].input
    ELSE call[c].modelCalls[2].messages

\* tc is an item of the conversation, or a tool call of one of its messages
CarriedIn(conv, tc) ==
    \E j \in 1..Len(conv) :
        \/ conv[j] = tc
        \/ /\ "tool_calls" \in DOMAIN conv[j]
           /\ \E k \in 1..Len(conv[j].tool_calls) : conv[j].tool_calls[k] = tc

(***************************************************************************)
(* C5.  In both styles, when the first reply mixes search_web calls with   *)
(* unrelated tool calls, every unrelated tool call of the first reply is   *)
(* present, unmodified, in the conversation of the second model call.      *)
(***************************************************************************)
C5_UnrelatedCallsCarried ==
    \A c \in Calls :
        Len(call[c].modelCalls) = 2
        => \A tc \in Unrelated(c) : CarriedIn(SecondConversation(c), tc)

(***************************************************************************)
(* C6.  In both styles, when the caller supplies its own tools list the    *)
(* call fails at once with 'User tools are not supported in the wrapper    *)
(* implementation.' and makes no model call and no gateway call.  (A call  *)
(* of responses.create that also lacks its input may report that first.)   *)
(***************************************************************************)
C6_UserToolsRejected ==
    \A c \in Calls :
        (call[c].pc # "idle" /\ call[c].userTools.present
            /\ ~(call[c].style = "A" /\ call[c].error = "Input is required for creating a response"))
        => /\ call[c].pc = "failed"
           /\ call[c].error = "User tools are not supported in the wrapper implementation."
           /\ call[c].modelCalls = <<>>
           /\ call[c].gatewayCalls = <<>>

InputRequired == "Input is required for creating a response"

FailedForInput(c) ==
    /\ call[c].pc = "failed"
    /\ call[c].error = InputRequired
    /\ call[c].modelCalls = <<>>
    /\ call[c].gatewayCalls = <<>>

\* the input as the caller passed it
PassedUndefined(c) == call[c].input.kind = "undefined"
PassedEmptyString(c) == call[c].input.kind = "string" /\ call[c].input.text = ""
PassedArray(c) == call[c].input.kind = "array"
PassedEmptyArray(c) == PassedArray(c) /\ CallerHeap[call[c].input.ref] = <<>>

Started(c, style) == call[c].pc # "idle" /\ call[c].style = style

(***************************************************************************)
(* C7.  As claimed: responses.create fails at once with 'Input is required *)
(* for creating a response' when the input is undefined, an empty string   *)
(* or an empty list of items, and then makes no model or gateway call.     *)
(***************************************************************************)
C7_Original ==
    \A c \in Calls :
        (Started(c, "A")
            /\ (PassedUndefined(c) \/ PassedEmptyString(c) \/ PassedEmptyArray(c)))
        => FailedForInput(c)

(***************************************************************************)
(* C7, amended.  responses.create fails at once with 'Input is required    *)
(* for creating a response' when the input is undefined or an empty        *)
(* string, and then makes no model or gateway call; a list of items, even  *)
(* an empty one, is not rejected: it is sent to the model.                 *)
(***************************************************************************)
C7_InputRequired ==
    \A c \in Calls :
        /\ (Started(c, "A") /\ (PassedUndefined(c) \/ PassedEmptyString(c)))
           => FailedForInput(c)
        /\ (Started(c, "A") /\ PassedArray(c))
           => /\ call[c].error # InputRequired
              /\ Len(call[c].modelCalls) >= 1
              /\ call[c].modelCalls[1].input = CallerHeap[call[c].input.ref]

\* the empty string was rejected
C7_Witness ==
    \E c \in Calls : Started(c, "A") /\ PassedEmptyString(c) /\ FailedForInput(c)

\* the query field of the payloads a model can send, read off by hand
QueryFieldOf(arguments) ==
    CASE arguments = ArgsFoo -> JString("foo-bar")
      [] arguments = ArgsEmptyQuery -> JString("")
      [] OTHER -> Undefined

\* the matching tool call of the first reply with the given id
MatchingById(c, id) ==
    LET k == CHOOSE k \in 1..Len(Matching(c)) : IdOf(call[c].style, Matching(c)[k]) = id
    IN Matching(c)[k]

(***************************************************************************)
(* C8.  Every gateway invocation, in either style, carries exactly         *)
(* depth = standard, outputType = searchResults and query = the value of   *)
(* the query field of that tool call's JSON arguments.                     *)
(***************************************************************************)
C8_GatewayRequestShape ==
    \A c \in Calls :
        \A k \in 1..Len(call[c].gatewayCalls) :
            LET g == call[c].gatewayCalls[k]
            IN /\ DOMAIN g.request = {"depth", "outputType", "query"}
               /\ g.request.depth = "standard"
               /\ g.request.outputType = "searchResults"
               /\ g.toolCall \in MatchingIds(c)
               /\ g.request.query =
                     QueryFieldOf(ArgsOf(call[c].style, MatchingById(c, g.toolCall)))

\* a second gateway call whose query differs from the first one's
C8_Witness ==
    \E c \in Calls :
        /\ Len(call[c].gatewayCalls) = 2
        /\ call[c].gatewayCalls[1].request.query = JString("")
        /\ call[c].gatewayCalls[2].request.query = JString("foo-bar")


\* the payloads a model can send that are not JSON texts, listed by hand
NotJSON == {ArgsEmptyString, ArgsTruncated}

\* the call fails on the k-th matching tool call of its first reply
FailsOnToolCall(c, k) ==
    LET id == IdOf(call[c].style, Matching(c)[k])
    IN /\ \A j \in 1..Len(call[c].gatewayCalls) : call[c].gatewayCalls[j].toolCall # id
       /\ Len(call[c].modelCalls) <= 1
       /\ call[c].pc # "done"
       /\ call[c].i = k => (call[c].pc = "failed" /\ call[c].error = "SyntaxError")

(***************************************************************************)
(* C9.  As claimed: in both styles, a matching tool call whose arguments   *)
(* are not well-formed JSON, the empty string included, makes the whole    *)
(* call fail with a parse error: it is not skipped, the gateway is not     *)
(* invoked for it and the second model call is not issued.                 *)
(***************************************************************************)
C9_Original ==
    \A c \in Calls :
        HasFirstReply(c)
        => \A k \in 1..Len(Matching(c)) :
              ArgsOf(call[c].style, Matching(c)[k]) \in NotJSON => FailsOnToolCall(c, k)

ReadAsEmptyObject(c, k) ==
    call[c].style = "B" /\ ArgsOf("B", Matching(c)[k]) = ArgsEmptyString

(***************************************************************************)
(* C9, amended.  In both styles a matching tool call whose arguments are   *)
(* not well-formed JSON makes the whole call fail with a parse error: it   *)
(* is not skipped, the gateway is not invoked for it and the second model  *)
(* call is not issued.  The empty arguments string is such a payload in    *)
(* style A only: style B reads it as '{}', so the gateway is invoked for   *)
(* it with an undefined query.                                             *)
(***************************************************************************)
C9_MalformedArgumentsFail ==
    \A c \in Calls :
        HasFirstReply(c)
        => \A k \in 1..Len(Matching(c)) :
              /\ (ArgsOf(call[c].style, Matching(c)[k]) \in NotJSON /\ ~ReadAsEmptyObject(c, k))
                 => FailsOnToolCall(c, k)
              /\ (ReadAsEmptyObject(c, k) /\ call[c].i >= k)
                 => /\ Len(call[c].gatewayCalls) >= k
                    /\ call[c].gatewayCalls[k].request = [depth |-> "standard",
                                                          outputType |-> "searchResults",
                                                          query |-> Undefined]
                    /\ call[c].gatewayCalls[k].toolCall = Matching(c)[k].id

\* style A failed on an empty arguments string after one search went through
C9_Witness ==
    \E c \in Calls :
        /\ call[c].style = "A"
        /\ call[c].pc = "failed"
        /\ call[c].error = "SyntaxError"
        /\ call[c].i = 2
        /\ Len(Matching(c)) = 2
        /\ Matching(c)[2].arguments = ArgsEmptyString
        /\ Len(call[c].gatewayCalls) = 1

(***************************************************************************)
(* C10.  When a gateway invocation fails, the call fails with that same    *)
(* error: the gateway is not invoked again, the remaining matching tool    *)
(* calls are not executed and the second model call is never issued.       *)
(***************************************************************************)
C10_GatewayFailurePropagates ==
    \A c \in Calls :
        \A k \in 1..Len(call[c].gatewayReplies) :
            ~call[c].gatewayReplies[k].ok
            => /\ k = Len(call[c].gatewayReplies)
               /\ Len(call[c].gatewayCalls) = k
               /\ call[c].pc = "failed"
               /\ call[c].error = call[c].gatewayReplies[k].error
               /\ Len(call[c].modelCalls) = 1

\* the first of two searches failed: the second one was never started
C10_Witness ==
    \E c \in Calls :
        /\ HasFirstReply(c)
        /\ Len(Matching(c)) = 2
        /\ Len(call[c].gatewayCalls) = 1
        /\ call[c].pc = "failed"
        /\ call[c].error = "LinkupNoResultError"
        /\ ~call[c].gatewayReplies[1].ok

(***************************************************************************)
(* Vocabulary of the claims about the Linkup client.  It is stated on the  *)
(* record of the search, never with the operators of the client.           *)
(***************************************************************************)
\* the search was rejected after the backend answered with a body
Refined ==
    /\ request.pc = "rejected"
    /\ "response" \in DOMAIN request.response
    /\ "data" \in DOMAIN request.response.response

BackendEnvelope == request.response.response.data
WellFormed == Refined /\ "error" \in DOMAIN BackendEnvelope
Mapped(statusCode) == WellFormed /\ BackendEnvelope.statusCode = statusCode
BackendCode == BackendEnvelope.error.code
BackendMessage == BackendEnvelope.error.message

\* the rejection is an error of the given class carrying the given message
RejectedWith(name, message) ==
    request.error.name = name /\ request.error.message = message

UnknownPrefix == "An unknown error occurred: "

\* C11 (as stated): for status code 400 the error mapper returns NoResult,
\* carrying the backend message, when the code is SEARCH_QUERY_NO_RESULT, and
\* InvalidRequest for every other code.
C11_Original ==
    Mapped(400) =>
        IF BackendCode = "SEARCH_QUERY_NO_RESULT"
        THEN RejectedWith("LinkupNoResultError", BackendMessage)
        ELSE request.error.name = "LinkupInvalidRequestError"

\* C11 (amended): for status code 400 the error mapper returns NoResult when the
\* code is SEARCH_QUERY_NO_RESULT and a Fetch error when the code is FETCH_ERROR,
\* both carrying the backend message, and InvalidRequest for every other code.
C11_BadRequestMapping ==
    Mapped(400) =>
        CASE BackendCode = "SEARCH_QUERY_NO_RESULT" ->
                RejectedWith("LinkupNoResultError", BackendMessage)
          [] BackendCode = "FETCH_ERROR" ->
                RejectedWith("LinkupFetchError", BackendMessage)
          [] OTHER -> request.error.name = "LinkupInvalidRequestError"

C11_Witness ==
    /\ Mapped(400)
    /\ BackendCode = "FETCH_ERROR"
    /\ BackendMessage = <<"foobar">>
    /\ RejectedWith("LinkupFetchError", <<"foobar">>)

\* C12: for status code 401 and for status code 403 the error mapper returns an
\* Authentication error carrying the backend message, whatever the error code.
C12_AuthenticationMapping ==
    (Mapped(401) \/ Mapped(403)) =>
        RejectedWith("LinkupAuthenticationError", BackendMessage)

C12_Witness ==
    /\ Mapped(403)
    /\ BackendCode = "FOOBAR"
    /\ RejectedWith("LinkupAuthenticationError", <<"foobar">>)

\* C13: for status code 429 the error mapper returns InsufficientCredit when the
\* code is INSUFFICIENT_FUNDS_CREDITS, TooManyRequests when it is
\* TOO_MANY_REQUESTS, and otherwise Unknown with the message
\* 'An unknown error occurred: ' followed by the backend message.
C13_TooManyRequestsMapping ==
    Mapped(429) =>
        CASE BackendCode = "INSUFFICIENT_FUNDS_CREDITS" ->
                request.error.name = "LinkupInsufficientCreditError"
          [] BackendCode = "TOO_MANY_REQUESTS" ->
                request.error.name = "LinkupTooManyRequestsError"
          [] OTHER ->
                RejectedWith("LinkupUnknownError", <<UnknownPrefix>> \o BackendMessage)

C13_Witness ==
    /\ Mapped(429)
    /\ BackendCode = "FOOBAR"
    /\ RejectedWith("LinkupUnknownError", <<UnknownPrefix, "foobar">>)

\* C14: for every status code other than 400, 401, 403 and 429, and for every
\* error code, the error mapper returns Unknown with the message
\* 'An unknown error occurred: ' followed by the backend message.
C14_OtherStatusIsUnknown ==
    (WellFormed /\ BackendEnvelope.statusCode \notin {400, 401, 403, 429}) =>
        RejectedWith("LinkupUnknownError", <<UnknownPrefix>> \o BackendMessage)

C14_Witness ==
    /\ Mapped(500)
    /\ BackendCode = "SEARCH_QUERY_NO_RESULT"
    /\ RejectedWith("LinkupUnknownError", <<UnknownPrefix, "foobar">>)

\* the text holds the words 'An unknown error occurred'
SaysUnknown(message) ==
    \E k \in 1..Len(message) :
        message[k] \in {"An unknown error occurred", UnknownPrefix}

\* C15: the error mapper is total: for an envelope without its error field, at
\* any status code, it returns an Unknown error whose message contains
\* 'An unknown error occurred', and throws no error of its own.
C15_MapperIsTotal ==
    (Refined /\ "error" \notin DOMAIN BackendEnvelope) =>
        /\ request.error.name = "LinkupUnknownError"
        /\ SaysUnknown(request.error.message)

\* the search of the given output type resolved
Fulfilled(outputType) ==
    request.pc = "fulfilled" /\ request.params.outputType = outputType

BackendPayload == request.response

\* the result has exactly these fields, each with the payload's value for it
\* (undefined when the payload has none)
Projects(fields) ==
    /\ DOMAIN request.result = fields
    /\ \A field \in fields :
          IF field \in DOMAIN BackendPayload
          THEN request.result[field] = BackendPayload[field]
          ELSE request.result[field] = Undefined

\* C16: for outputType sourcedAnswer the normalizer returns exactly the payload's
\* answer and sources, for searchResults exactly the payload's results, each
\* unchanged; normalize('searchResults', {results: X}) = {results: X}, and no
\* other field of the payload is in the result.
C16_ProjectsNamedFields ==
    /\ Fulfilled("sourcedAnswer") => Projects({"answer", "sources"})
    /\ Fulfilled("searchResults") =>
          /\ Projects({"results"})
          /\ DOMAIN BackendPayload = {"results"} => request.result = BackendPayload

C16_Witness ==
    /\ Fulfilled("searchResults")
    /\ DOMAIN BackendPayload = {"results", "extra", "answer"}
    /\ BackendPayload.results = <<ImageResult, TextResult2>>
    /\ DOMAIN request.result = {"results"}
    /\ request.result.results = <<ImageResult, TextResult2>>

\* C17: for outputType structured the normalizer returns the raw payload
\* unchanged, whether or not includeSources was requested; a {data, sources}
\* payload keeps both fields.
C17_StructuredUnchanged ==
    Fulfilled("structured") => request.result = BackendPayload

C17_Witness ==
    /\ Fulfilled("structured")
    /\ request.params.includeSources
    /\ DOMAIN BackendPayload = {"data", "sources"}
    /\ DOMAIN request.result = {"data", "sources"}
    /\ request.result.data = [type |-> "foo"]
    /\ request.result.sources = <<Source, TextResult, ImageResult>>

(***************************************************************************)
(* Claims about the wrapper made by wrap.                                  *)
(***************************************************************************)
NothingCalled(c) == call[c].modelCalls = <<>> /\ call[c].gatewayCalls = <<>>

\* the backend request is the search of the given query
IsSearchPost(post, query) ==
    /\ post.url = "/search"
    /\ Prop(post.body, "depth") = "standard"
    /\ Prop(post.body, "outputType") = "searchResults"
    /\ Prop(post.body, "q") = query

\* C18: wrap(modelClient) returns a wrapper without making any model call or
\* backend request; afterwards every search_web tool call handled through the
\* wrapper causes exactly one backend /search request, with depth standard,
\* outputType searchResults and q equal to the tool call's query, and the
\* second model call comes after these requests.
C18_WrapBindsClientSearch ==
    /\ (\A c \in Calls : call[c].pc = "idle") =>
          /\ \A c \in Calls : NothingCalled(c)
          /\ request.pc = "idle"
    /\ \A c \in Calls :
          /\ call[c].pc # "idle" => wrapper.made
          /\ \A k \in 1..Len(call[c].gatewayCalls) :
                LET g == call[c].gatewayCalls[k]
                IN /\ Len(g.posts) = 1
                   /\ IsSearchPost(g.posts[1],
                         QueryFieldOf(ArgsOf(call[c].style, MatchingById(c, g.toolCall))))
          /\ call[c].pc = "awaitingGateway" => Len(call[c].modelCalls) = 1
          /\ (call[c].pc = "done" /\ call[c].gatewayCalls # <<>>) =>
                /\ Len(call[c].modelCalls) = 2
                /\ Len(call[c].gatewayCalls) = Len(Matching(c))

\* the test's case: one search_web call for 'foo-bar' on input 'foo'
C18_Witness ==
    /\ wrapper = [made |-> TRUE, clientOpenAI |-> "openAIClient",
                  linkupSearch |-> "LinkupClient.search"]
    /\ \E c \in Calls :
          /\ call[c].pc = "done"
          /\ call[c].style = "A"
          /\ call[c].input.kind = "string"
          /\ Len(Matching(c)) = 1
          /\ Matching(c)[1].arguments = ArgsFoo
          /\ Len(call[c].gatewayCalls) = 1
          /\ call[c].gatewayCalls[1].posts =
                <<[url |-> "/search",
                   body |-> [depth |-> "standard", outputType |-> "searchResults",
                             q |-> JString("foo-bar")]]>>
          /\ Len(call[c].modelCalls) = 2

\* the name of an advertised tool, in either protocol
ToolName(style, tool) == IF style = "A" THEN tool.name ELSE tool.function.name

\* C19: in both styles the first model call of every orchestration call
\* advertises exactly one tool, search_web, and nothing else.
C19_FirstCallAdvertisesSearchWebOnly ==
    \A c \in Calls :
        Len(call[c].modelCalls) >= 1 =>
            LET advertised == call[c].modelCalls[1].tools
            IN /\ advertised.present
               /\ Len(advertised.list) = 1
               /\ ToolName(call[c].style, advertised.list[1]) = "search_web"

\* C20: in style A the second model call is issued with the tool list omitted:
\* it advertises neither search_web nor any other tool.
C20_SecondCallOmitsTools ==
    \A c \in Calls :
        (call[c].style = "A" /\ Len(call[c].modelCalls) >= 2) =>
            ~call[c].modelCalls[2].tools.present

(***************************************************************************)
(* Claims about the conversation of the second model call.                 *)
(***************************************************************************)
\* the items the caller passed in, as they were before the call
InputItems(c) ==
    IF call[c].input.kind = "string"
    THEN <<[content |-> call[c].input.text, role |-> "user"]>>
    ELSE CallerHeap[call[c].input.ref]

IsReasoningItem(item) == item.type = "reasoning"

\* the reasoning item of the first reply, if any: a list of at most one item
ReasoningOfFirst(c) ==
    LET all == SelectSeq(FirstReply(c).output, IsReasoningItem)
    IN IF all = <<>> THEN <<>> ELSE <<all[1]>>

MadeSecondCall(c, style) == call[c].style = style /\ Len(call[c].modelCalls) >= 2

\* C21: in style A the conversation of the second model call is, in this order,
\* the caller's input items (a bare string as one user item), the reasoning item
\* of the first reply if there is one, every matched search_web call in the order
\* of the first reply, then one tool-output item per matched call in that order.
C21_ConversationOrder ==
    \A c \in Calls :
        MadeSecondCall(c, "A") =>
            LET conv == call[c].modelCalls[2].input
                n == Len(InputItems(c))
                r == Len(ReasoningOfFirst(c))
                m == Len(Matching(c))
            IN /\ Len(conv) = n + r + m + m
               /\ SubSeq(conv, 1, n) = InputItems(c)
               /\ SubSeq(conv, n + 1, n + r) = ReasoningOfFirst(c)
               /\ SubSeq(conv, n + r + 1, n + r + m) = Matching(c)
               /\ \A k \in 1..m :
                     /\ conv[n + r + m + k].type = "function_call_output"
                     /\ conv[n + r + m + k].call_id = Matching(c)[k].call_id

\* a list input, a reasoning item and one matched call
C21_Witness ==
    \E c \in Calls :
        /\ MadeSecondCall(c, "A")
        /\ call[c].input = InputArray(2)
        /\ Len(ReasoningOfFirst(c)) = 1
        /\ Len(Matching(c)) = 1
        /\ Len(call[c].modelCalls[2].input) = 4
        /\ call[c].modelCalls[2].input[2].type = "reasoning"
        /\ call[c].modelCalls[2].input[3].type = "function_call"
        /\ call[c].modelCalls[2].input[4].type = "function_call_output"

\* a tool-output record of the protocol, and the id it is keyed by
IsToolOutput(style, item) ==
    IF style = "A"
    THEN "type" \in DOMAIN item /\ item.type = "function_call_output"
    ELSE item.role = "tool"

KeyOf(style, item) == IF style = "A" THEN item.call_id ELSE item.tool_call_id

\* the item is, or holds, the tool call with the given id
HoldsToolCall(style, item, id) ==
    IF style = "A"
    THEN "type" \in DOMAIN item /\ IsToolCallItem(item) /\ item.call_id = id
    ELSE /\ "tool_calls" \in DOMAIN item
         /\ \E k \in 1..Len(item.tool_calls) : item.tool_calls[k].id = id

\* C22: in both styles the conversation of the second model call holds exactly
\* one tool-output record per matched search_web call, keyed by that call's id;
\* the id of every tool-output record is the id of a tool call that appears
\* earlier in the conversation, and no record is for an unrelated tool call.
C22_OneOutputPerMatchedCall ==
    \A c \in Calls :
        Len(call[c].modelCalls) >= 2 =>
            LET style == call[c].style
                conv == SecondConversation(c)
                outputs == {j \in 1..Len(conv) : IsToolOutput(style, conv[j])}
            IN /\ \A id \in MatchingIds(c) :
                     Cardinality({j \in outputs : KeyOf(style, conv[j]) = id}) = 1
               /\ \A j \in outputs :
                     /\ KeyOf(style, conv[j]) \in MatchingIds(c)
                     /\ \E i \in 1..(j - 1) :
                           HoldsToolCall(style, conv[i], KeyOf(style, conv[j]))

\* style B: a matched call and an unrelated one, one tool message
C22_Witness ==
    \E c \in Calls :
        /\ call[c].style = "B"
        /\ Len(call[c].modelCalls) = 2
        /\ Len(Matching(c)) = 1
        /\ Unrelated(c) # {}
        /\ LET conv == SecondConversation(c)
           IN /\ conv[Len(conv)].role = "tool"
              /\ conv[Len(conv)].tool_call_id = Matching(c)[1].id
              /\ Cardinality({j \in 1..Len(conv) : conv[j].role = "tool"}) = 1

\* the k-th tool-output item of the second conversation of a style A call
OutputItem(c, k) ==
    call[c].modelCalls[2].input[Len(InputItems(c)) + Len(ReasoningOfFirst(c))
                                + Len(Matching(c)) + k]

\* the text contents of the results joined by line feeds, written out by hand
\* for the result lists of the gateway: an image has no content
JoinedText(results) ==
    CASE results = <<>> -> <<>>
      [] results = <<TextResult>> -> <<"a">>
      [] results = <<ImageResult, TextResult2>> -> <<"\n", "b", "\n", "c">>

\* the same texts as JSON string literals
JoinedTextLiteral(results) ==
    CASE results = <<>> -> <<"\"", "\"">>
      [] results = <<TextResult>> -> <<"\"", "a", "\"">>
      [] results = <<ImageResult, TextResult2>> ->
            <<"\"", "\\", "n", "b", "\\", "n", "c", "\"">>

\* C23 (as stated): in style A the content of each tool-output item is the
\* newline-joined text content of the results of that call, in result order, an
\* image result counting as the empty string, with no further serialization.
C23_Original ==
    \A c \in Calls :
        MadeSecondCall(c, "A") =>
            \A k \in 1..Len(Matching(c)) :
                OutputItem(c, k).output = JoinedText(call[c].gatewayReplies[k].results)

\* C23 (amended): in style A the content of each tool-output item is the JSON
\* string literal of that newline-joined text: the text between double quotes,
\* each line feed written as backslash n.
C23_OutputIsStringifiedText ==
    \A c \in Calls :
        MadeSecondCall(c, "A") =>
            \A k \in 1..Len(Matching(c)) :
                OutputItem(c, k).output =
                    JoinedTextLiteral(call[c].gatewayReplies[k].results)

C23_Witness ==
    \E c \in Calls :
        /\ MadeSecondCall(c, "A")
        /\ Len(Matching(c)) = 1
        /\ call[c].gatewayReplies[1].results = <<ImageResult, TextResult2>>
        /\ OutputItem(c, 1).output = <<"\"", "\\", "n", "b", "\\", "n", "c", "\"">>

\* a one-word string between double quotes
Quoted(word) == <<"\"", word, "\"">>

\* JSON texts with 2-space indentation, written out by hand for the result
\* lists of the gateway
IndentedText(results) ==
    CASE results = <<>> -> <<"[]">>
      [] results = <<TextResult>> ->
            <<"[", "\n", "  ", "{", "\n">>
            \o <<"    ", "\"type\": ">> \o Quoted("text") \o <<",", "\n">>
            \o <<"    ", "\"name\": ">> \o Quoted("n1") \o <<",", "\n">>
            \o <<"    ", "\"url\": ">> \o Quoted("u1") \o <<",", "\n">>
            \o <<"    ", "\"content\": ">> \o Quoted("a") \o <<"\n">>
            \o <<"  ", "}", "\n", "]">>
      [] results = <<ImageResult, TextResult2>> ->
            <<"[", "\n", "  ", "{", "\n">>
            \o <<"    ", "\"type\": ">> \o Quoted("image") \o <<",", "\n">>
            \o <<"    ", "\"name\": ">> \o Quoted("n3") \o <<",", "\n">>
            \o <<"    ", "\"url\": ">> \o Quoted("u3") \o <<"\n">>
            \o <<"  ", "}", ",", "\n", "  ", "{", "\n">>
            \o <<"    ", "\"type\": ">> \o Quoted("text") \o <<",", "\n">>
            \o <<"    ", "\"name\": ">> \o Quoted("n2") \o <<",", "\n">>
            \o <<"    ", "\"url\": ">> \o Quoted("u2") \o <<",", "\n">>
            \o <<"    ", "\"content\": ", "\"", "b", "\\", "n", "c", "\"", "\n">>
            \o <<"  ", "}", "\n", "]">>

\* C24: in style B the messages of the second model call are the caller's
\* messages, then the assistant message of the first reply with all its tool
\* calls, then one message per matching search_web call, in call order, with
\* role tool, tool_call_id the call's id, and as content the result list of the
\* gateway serialized as JSON with 2-space indentation.
C24_ChatMessageList ==
    \A c \in Calls :
        MadeSecondCall(c, "B") =>
            LET conv == call[c].modelCalls[2].messages
                orig == CallerHeap[call[c].messages]
                n == Len(orig)
                m == Len(Matching(c))
            IN /\ Len(conv) = n + 1 + m
               /\ SubSeq(conv, 1, n) = orig
               /\ conv[n + 1] = FirstReply(c).choices[1].message
               /\ \A k \in 1..m :
                     /\ DOMAIN conv[n + 1 + k] = {"role", "tool_call_id", "content"}
                     /\ conv[n + 1 + k].role = "tool"
                     /\ conv[n + 1 + k].tool_call_id = Matching(c)[k].id
                     /\ conv[n + 1 + k].content =
                           IndentedText(call[c].gatewayReplies[k].results)

\* two matching calls, the second one answered with an image and a text
C24_Witness ==
    \E c \in Calls :
        /\ MadeSecondCall(c, "B")
        /\ call[c].messages = 2
        /\ Len(Matching(c)) = 2
        /\ call[c].gatewayReplies[1].results = <<TextResult>>
        /\ call[c].gatewayReplies[2].results = <<ImageResult, TextResult2>>
        /\ Len(call[c].modelCalls[2].messages) = 4
        /\ call[c].modelCalls[2].messages[4].tool_call_id = 2

(***************************************************************************)
(* Claims about the order of the steps of one call.                        *)
(***************************************************************************)
\* gateway invocations issued and not yet completed
Pending(c) == Len(call[c].gatewayCalls) - Len(call[c].gatewayReplies)

\* C25: within one orchestration call the steps are strictly sequential: the
\* gateway is invoked for the matched calls one at a time, in the order of the
\* first reply; invocation k+1 starts only after invocation k has completed, the
\* first one only after the first model reply, and the second model call only
\* after the last invocation has completed.
C25_StrictlySequential ==
    \A c \in Calls :
        /\ Pending(c) \in {0, 1}
        /\ call[c].gatewayCalls # <<>> =>
              /\ HasFirstReply(c)
              /\ Len(call[c].gatewayCalls) <= Len(Matching(c))
              /\ \A k \in 1..Len(call[c].gatewayCalls) :
                    call[c].gatewayCalls[k].toolCall = IdOf(call[c].style, Matching(c)[k])
        /\ Len(call[c].modelCalls) >= 2 =>
              /\ Pending(c) = 0
              /\ Len(call[c].gatewayReplies) = Len(Matching(c))
              /\ \A k \in 1..Len(call[c].gatewayReplies) : call[c].gatewayReplies[k].ok

\* the second invocation is in flight: the first has completed, no second
\* model call yet
C25_Witness ==
    \E c \in Calls :
        /\ call[c].pc = "awaitingGateway"
        /\ Len(call[c].gatewayCalls) = 2
        /\ Len(call[c].gatewayReplies) = 1
        /\ call[c].gatewayCalls[1].toolCall = 1
        /\ call[c].gatewayCalls[2].toolCall = 2
        /\ Len(call[c].modelCalls) = 1

(***************************************************************************)
(* Claims about the ownership of the conversation.                         *)
(***************************************************************************)
Finished(c) == call[c].pc \in {"done", "failed"}

\* C26: each orchestration call works on its own copy of the conversation: once
\* responses.create (with a list input) or chat.completions.create has returned
\* or failed, at whatever step, the caller's input or messages list holds
\* exactly the items it held before the call.
C26_CallerListUnchanged ==
    \A c \in Calls :
        (Finished(c) /\ (PassedArray(c) \/ call[c].style = "B")) =>
            LET list == IF call[c].style = "A" THEN call[c].input.ref ELSE call[c].messages
            IN heap[list] = CallerHeap[list]

\* what the call itself appends to what it was given: in style A its reasoning
\* item, its matched calls and a tool output per matched call; in style B the
\* assistant message and a tool message per matched call
OwnAppended(c, conv, n) ==
    IF call[c].style = "A"
    THEN LET r == Len(ReasoningOfFirst(c))
             m == Len(Matching(c))
         IN /\ Len(conv) = n + r + m + m
            /\ SubSeq(conv, n + 1, n + r) = ReasoningOfFirst(c)
            /\ SubSeq(conv, n + r + 1, n + r + m) = Matching(c)
            /\ \A k \in 1..m :
                  /\ conv[n + r + m + k].type = "function_call_output"
                  /\ conv[n + r + m + k].call_id = Matching(c)[k].call_id
    ELSE LET m == Len(Matching(c))
         IN /\ Len(conv) = n + 1 + m
            /\ conv[n + 1] = FirstReply(c).choices[1].message
            /\ \A k \in 1..m :
                  /\ conv[n + 1 + k].role = "tool"
                  /\ conv[n + 1 + k].tool_call_id = Matching(c)[k].id

\* C27: for two orchestration calls running concurrently on the same wrapper,
\* under every interleaving and also when both were given the same input list,
\* the conversation each one submits to its second model call holds only its
\* own input items, as submitted to its first model call, and its own
\* reasoning, tool-call and tool-output items, never an item of the other call.
C27_NoForeignItems ==
    \A c \in Calls :
        Len(call[c].modelCalls) >= 2 =>
            LET given == IF call[c].style = "A" THEN call[c].modelCalls[1].input
                         ELSE call[c].modelCalls[1].messages
                conv == SecondConversation(c)
            IN /\ Len(conv) >= Len(given)
               /\ SubSeq(conv, 1, Len(given)) = given
               /\ OwnAppended(c, conv, Len(given))

(***************************************************************************)
(* Claims about the arguments of a matched call, and about termination.    *)
(***************************************************************************)
\* well-formed JSON without a query, or with an empty one
NoUsableQuery == {ArgsNoQuery, ArgsEmptyQuery}

\* C28: a matching tool call whose arguments are well-formed JSON but carry no
\* query field, or an empty query, is not rejected locally: once the loop has
\* come to it the gateway has been invoked exactly once for it, with that
\* missing or empty query, and when the gateway has answered every matched call
\* the second model call is made.
C28_EmptyQueryNotRejected ==
    \A c \in Calls :
        HasFirstReply(c) =>
            \A k \in 1..Len(Matching(c)) :
                LET tc == Matching(c)[k]
                    id == IdOf(call[c].style, tc)
                    served == {j \in 1..Len(call[c].gatewayCalls) :
                                  call[c].gatewayCalls[j].toolCall = id}
                IN (ArgsOf(call[c].style, tc) \in NoUsableQuery /\ call[c].i >= k) =>
                      /\ Cardinality(served) = 1
                      /\ \A j \in served :
                            call[c].gatewayCalls[j].request.query =
                                (IF ArgsOf(call[c].style, tc) = ArgsNoQuery
                                 THEN Undefined ELSE JString(""))
                      /\ (/\ k = Len(Matching(c))
                          /\ Len(call[c].gatewayReplies) = k
                          /\ call[c].gatewayReplies[k].ok)
                         => Len(call[c].modelCalls) = 2

\* style A returned after a search with an undefined query
C28_Witness ==
    \E c \in Calls :
        /\ call[c].style = "A"
        /\ call[c].pc = "done"
        /\ Len(Matching(c)) = 1
        /\ Matching(c)[1].arguments = ArgsNoQuery
        /\ Len(call[c].gatewayCalls) = 1
        /\ call[c].gatewayCalls[1].request.query = Undefined
        /\ Len(call[c].modelCalls) = 2

\* the calls of the one-call specification
LiveCalls == {1}

\* the states of an orchestration call, by the await it is suspended at
AwaitingFirstModelReply(c) == call[c].pc = "awaitingFirst"
ExecutingTools(c) == call[c].pc = "awaitingGateway"
AwaitingSecondModelReply(c) == call[c].pc = "awaitingSecond"
Done(c) == call[c].pc = "done"
Failed(c) == call[c].pc = "failed"
Ended(c) == Done(c) \/ Failed(c)

\* the steps the stated order permits
Forward(c) ==
    \/ call'[c].pc = call[c].pc
    \/ call[c].pc = "idle" /\ call'[c].pc \in {"awaitingFirst", "failed"}
    \/ AwaitingFirstModelReply(c) /\ call'[c].pc \in {"awaitingGateway", "done", "failed"}
    \/ ExecutingTools(c) /\ call'[c].pc \in {"awaitingSecond", "failed"}
    \/ AwaitingSecondModelReply(c) /\ call'[c].pc \in {"done", "failed"}

\* C29: every orchestration call that has started eventually is done or has
\* failed, given that every model call and every gateway call completes; and
\* its states follow one another only in the order AwaitingFirstModelReply,
\* then optionally ExecutingTools and AwaitingSecondModelReply, then Done,
\* never back to an earlier one.
C29_EndsInOrder ==
    /\ [][\A c \in LiveCalls : Forward(c)]_vars
    /\ \A c \in LiveCalls : (call[c].pc # "idle") ~> Ended(c)

\* a call that is done after both model calls and two searches
C29_Witness ==
    \E c \in Calls :
        /\ Done(c)
        /\ Len(call[c].modelReplies) = 2
        /\ Len(call[c].gatewayReplies) = 2

\* the search_web tool calls of the n-th choice of a chat completion
SearchCallsOfChoice(reply, n) ==
    LET m == reply.choices[n].message
    IN IF m.has_tool_calls
       THEN {k \in 1..Len(m.tool_calls) :
                m.tool_calls[k].type = "function" /\ m.tool_calls[k].function.name = "search_web"}
       ELSE {}

\* search_web is asked for in a later choice only
OnlyInLaterChoice(reply) ==
    /\ Len(reply.choices) >= 2
    /\ SearchCallsOfChoice(reply, 1) = {}
    /\ \E n \in 2..Len(reply.choices) : SearchCallsOfChoice(reply, n) # {}

\* C30: in style B only the first choice of the first reply is inspected: when
\* search_web tool calls appear only in a choice other than the first, the
\* gateway is never invoked and the first response is returned unchanged after
\* a single model call.
C30_OnlyFirstChoiceInspected ==
    \A c \in Calls :
        (call[c].style = "B" /\ HasFirstReply(c) /\ OnlyInLaterChoice(FirstReply(c))) =>
            /\ call[c].gatewayCalls = <<>>
            /\ call[c].pc = "done"
            /\ Len(call[c].modelCalls) = 1
            /\ call[c].result = FirstReply(c)

\* the first choice asks for another function, the second one for search_web
C30_Witness ==
    \E c \in Calls :
        /\ call[c].style = "B"
        /\ call[c].pc = "done"
        /\ HasFirstReply(c)
        /\ OnlyInLaterChoice(FirstReply(c))
        /\ FirstReply(c).choices[1].message.has_tool_calls

(***************************************************************************)
(* Claims about the messages and the classes of the mapped errors.         *)
(***************************************************************************)
\* the details' messages, each one after a single space
RECURSIVE SpaceThenEach(_)
SpaceThenEach(details) ==
    IF details = <<>> THEN <<>>
    ELSE <<" ">> \o Head(details).message \o SpaceThenEach(Tail(details))

\* the mapper built an InvalidRequest error
BuiltInvalidRequest ==
    /\ Mapped(400)
    /\ BackendCode \notin {"SEARCH_QUERY_NO_RESULT", "FETCH_ERROR"}

\* C31: the InvalidRequest message is the backend message followed by every
\* detail message in order, all separated by single spaces; with an empty
\* details list it is exactly the backend message, with no trailing space.
C31_MessageThenDetails ==
    BuiltInvalidRequest =>
        /\ request.error.message = BackendMessage \o SpaceThenEach(BackendEnvelope.error.details)
        /\ BackendEnvelope.error.details = <<>> => request.error.message = BackendMessage

\* an InvalidRequest error built from a message and two details
C31_Witness ==
    /\ BuiltInvalidRequest
    /\ Len(BackendEnvelope.error.details) = 2
    /\ request.error.name = "LinkupInvalidRequestError"
    /\ request.error.message =
          <<"foobar", " ", "q is required", " ", "depth is invalid">>

\* C32: every error the error mapper produces, for every pair of status code
\* and code, belongs to the common domain-error type LinkupError, the
\* Authentication error included.
C32_MappedIsDomainError ==
    WellFormed => InstanceOf(request.error.name, "LinkupError")

(***************************************************************************)
(* Claims about the failures of the transport.                             *)
(***************************************************************************)
\* the post failed with an error and the search rejected
TransportError == request.response
HasBody ==
    /\ "response" \in DOMAIN TransportError
    /\ "data" \in DOMAIN TransportError.response

\* the classes of the mapper's errors
TypedErrors ==
    {"LinkupInvalidRequestError", "LinkupNoResultError", "LinkupAuthenticationError",
     "LinkupInsufficientCreditError", "LinkupTooManyRequestsError", "LinkupUnknownError",
     "LinkupFetchError"}

\* C33: a backend call that fails without a response, or with a response that
\* has no body, rejects with the original transport error, unchanged; a failure
\* that has a response body always rejects with one of the mapper's typed errors.
C33_TransportErrorsPropagate ==
    request.pc = "rejected" =>
        IF HasBody
        THEN request.error.name \in TypedErrors
        ELSE request.error = TransportError

(***************************************************************************)
(* Claims about the fetch-based client.                                    *)
(***************************************************************************)
\* the backend answered with a response that is not ok, and search has settled
SettledOnNonOk ==
    /\ request.pc \in {"fulfilled", "rejected"}
    /\ "ok" \in DOMAIN request.response
    /\ ~request.response.ok

ErrorBody == request.response.body

\* the class of the typed error for a status and a message
TypedErrorFor(status, message) ==
    CASE status = 400 /\ message = <<"The query did not yield any result">> ->
            "LinkupNoResultError"
      [] status = 400 /\ message # <<"The query did not yield any result">> ->
            "LinkupInvalidRequestError"
      [] status = 403 -> "LinkupAuthenticationError"
      [] status = 429 -> "LinkupInsufficientCreditError"
      [] OTHER -> "LinkupUnknownError"

\* the error body is JSON and carries a message
CarriesMessage ==
    /\ ErrorBody.parses
    /\ ErrorBody.value # JNull
    /\ "message" \in DOMAIN ErrorBody.value
    /\ ErrorBody.value.message # <<>>

\* C34: when the body of an error response cannot be parsed as JSON, the search
\* fails with an Unknown error carrying the default message
\* 'An unknown error occurred', whatever the status code of the response.
C34_UnparsableBodyFallsBack ==
    (SettledOnNonOk /\ ~ErrorBody.parses) =>
        /\ request.pc = "rejected"
        /\ request.error.name = "LinkupUnknownError"
        /\ request.error.message = <<"An unknown error occurred">>

\* C35: in the fetch-based client, whenever the backend answers with a response
\* that is not ok, search fails with the typed error for its status, carrying
\* the backend message; it never resolves with a result built from the error
\* body and never normalizes the response.
C35_NonOkFailsTyped ==
    (SettledOnNonOk /\ CarriesMessage) =>
        /\ request.pc = "rejected"
        /\ request.result = NoReply
        /\ request.error.name =
              TypedErrorFor(request.response.status, ErrorBody.value.message)
        /\ request.error.message = ErrorBody.value.message

(***************************************************************************)
(* Claims about local usage errors, reasoning items and empty arguments.   *)
(***************************************************************************)
LocalUsageErrors ==
    {"Input is required for creating a response",
     "User tools are not supported in the wrapper implementation."}

\* the call was rejected for a precondition
RejectedLocally(c) == call[c].pc = "failed" /\ call[c].error \in LocalUsageErrors

CarriesType(item) == "type" \in DOMAIN item
IsCarriedReasoning(item) == CarriesType(item) /\ item.type = "reasoning"
CarriedReasoning(conv) == SelectSeq(conv, IsCarriedReasoning)

\* positions of the reasoning items in the output of the first reply
ReasoningPositions(c) ==
    {k \in 1..Len(FirstReply(c).output) : FirstReply(c).output[k].type = "reasoning"}

\* C37: in style A at most one reasoning item is carried into the second model
\* call: when the first reply holds several reasoning items only the first one
\* in output order is appended, and when the first reply has no matching
\* search_web call no reasoning item is appended at all.
C37_AtMostOneReasoning ==
    \A c \in Calls :
        (call[c].style = "A" /\ HasFirstReply(c)) =>
            LET carried == CarriedReasoning(heap[call[c].conversation])
                pos == ReasoningPositions(c)
            IN /\ Len(carried) <= 1
               /\ (Len(Matching(c)) = 0 \/ pos = {}) => carried = <<>>
               /\ (Len(Matching(c)) > 0 /\ pos # {}) =>
                     /\ Len(carried) = 1
                     /\ \A k \in pos : carried[1].id <= k
               /\ MadeSecondCall(c, "A") =>
                     CarriedReasoning(call[c].modelCalls[2].input) = carried

\* two reasoning items after the search_web call: the one at position 2 is carried
C37_Witness ==
    \E c \in Calls :
        /\ MadeSecondCall(c, "A")
        /\ ReasoningPositions(c) = {2, 3}
        /\ Len(CarriedReasoning(call[c].modelCalls[2].input)) = 1
        /\ CarriedReasoning(call[c].modelCalls[2].input)[1].id = 2

\* the gateway calls made for the tool call with the given id
ServedFor(c, id) ==
    {j \in 1..Len(call[c].gatewayCalls) : call[c].gatewayCalls[j].toolCall = id}

\* C38: in style B a matching search_web tool call whose arguments string is
\* empty is treated as the empty argument object: no parse failure is raised,
\* the gateway is invoked once with an undefined query, and a tool message is
\* appended for it once the search has resolved; in style A the same empty
\* arguments string makes the whole call fail, with no search for it.
C38_EmptyArgumentsString ==
    \A c \in Calls :
        HasFirstReply(c) =>
            \A k \in 1..Len(Matching(c)) :
                LET tc == Matching(c)[k]
                    id == IdOf(call[c].style, tc)
                IN (ArgsOf(call[c].style, tc) = <<>> /\ call[c].i >= k) =>
                      IF call[c].style = "B"
                      THEN /\ ~(call[c].pc = "failed" /\ call[c].i = k
                                 /\ call[c].error = "SyntaxError")
                           /\ Cardinality(ServedFor(c, id)) = 1
                           /\ \A j \in ServedFor(c, id) :
                                 call[c].gatewayCalls[j].request.query = Undefined
                           /\ (Len(call[c].gatewayReplies) >= k /\ call[c].gatewayReplies[k].ok)
                              => \E n \in 1..Len(heap[call[c].conversation]) :
                                    /\ heap[call[c].conversation][n].role = "tool"
                                    /\ heap[call[c].conversation][n].tool_call_id = id
                      ELSE /\ call[c].pc = "failed"
                           /\ call[c].i = k
                           /\ call[c].error = "SyntaxError"
                           /\ ServedFor(c, id) = {}

\* style B returned after a search made for an empty arguments string
C38_Witness ==
    \E c \in Calls :
        /\ call[c].style = "B"
        /\ call[c].pc = "done"
        /\ Len(Matching(c)) = 1
        /\ Matching(c)[1].function.arguments = <<>>
        /\ Len(call[c].gatewayCalls) = 1
        /\ call[c].gatewayCalls[1].request.query = Undefined
        /\ Len(call[c].modelCalls) = 2
        /\ call[c].modelCalls[2].messages[Len(call[c].modelCalls[2].messages)].role = "tool"

(***************************************************************************)
(* Claim about the normalizer and output types it does not know.           *)
(***************************************************************************)
KnownOutputTypes == {"sourcedAnswer", "searchResults", "structured"}

\* the search resolved, with an output type outside the known ones
FulfilledUnrecognised ==
    /\ request.pc = "fulfilled"
    /\ request.params.outputType \notin KnownOutputTypes

\* C39: the normalizer never fails on an output type outside sourcedAnswer,
\* searchResults and structured: it handles it like structured and returns the
\* raw payload unchanged.
C39_UnrecognisedLikeStructured ==
    FulfilledUnrecognised => request.result = BackendPayload

\* a payload with answer and sources came back whole for the output type other
C39_Witness ==
    /\ FulfilledUnrecognised
    /\ request.params.outputType = "other"
    /\ DOMAIN BackendPayload = {"answer", "sources", "extra"}
    /\ DOMAIN request.result = {"answer", "sources", "extra"}
====
